---- MODULE Spec2Model ----
(***************************************************************************)
(* A model of the HYBRAG vector-ingestion-and-retrieval core:              *)
(*   - S3VectorStore   (images/vector/s3_vector_store.py)                  *)
(*   - VectorStore     (images/vector/pinecone_store.py, OpenSearch)       *)
(*   - SiglipService   (images/embeddings/siglip.py, async polling)        *)
(*   - the views       (images/views.py: singletons, ingestion, re-rank,   *)
(*                      query normalisation, the search pipeline)          *)
(*   - reembed_all     (images/management/commands/reembed_all.py)         *)
(* Each component has its own specification over the shared variables.     *)
(***************************************************************************)
EXTENDS Integers, Sequences, FiniteSets, TLC

(***************************************************************************)
(* Bounds of the model and configuration values.                           *)
(***************************************************************************)
\* the configured embedding dimension (self.dim); 1536 in production
Dim == 2
\* top_k ranges over 0..MaxTopK
MaxTopK == 2
\* SAGEMAKER_ASYNC_TIMEOUT in seconds (150 by default)
AsyncTimeout == 6
\* time.sleep(2) between two reads of the output location
SleepInterval == 2
\* a read of the output location takes 0..MaxReadTime seconds
MaxReadTime == 1
\* the output object is absent for the first 0..MaxNotReady reads
MaxNotReady == 3
\* put_vectors carries at most 200 vectors (len(batch) >= 200 -> flush)
PutBatchLimit == 200
\* delete_vectors carries at most 500 keys, delete_objects at most 1000 objects
DeleteVectorsLimit == 500
DeleteObjectsLimit == 1000

Ids == {"a", "b"}
\* S3 lists keys in lexicographic order
IdOrder == <<"a", "b">>

V1 == <<1, 0>>
V2 == <<3, 4>>
\* vectors of the configured dimension (integer norms, so cosines are rational)
GoodVecs == {V1, V2}
\* vectors whose length differs from the configured dimension
BadVecs == {<<1>>, <<3, 4, 0>>}
AnyVecs == GoodVecs \cup BadVecs

(***************************************************************************)
(* Exact rational arithmetic for scores and distances.                     *)
(***************************************************************************)
Abs(x) == IF x < 0 THEN 0 - x ELSE x

RECURSIVE GCD(_, _)
GCD(a, b) == IF b = 0 THEN a ELSE GCD(b, a % b)

Rat(n, d) ==
    LET g == GCD(Abs(n), Abs(d))
        s == IF d < 0 THEN 0 - 1 ELSE 1
    IN  [n |-> (s * n) \div g, d |-> (s * d) \div g]

RatLT(x, y) == x.n * y.d < y.n * x.d
RatLE(x, y) == x.n * y.d <= y.n * x.d
RatSub(x, y) == Rat(x.n * y.d - y.n * x.d, x.d * y.d)
RatOne == Rat(1, 1)
RatMinusOne == Rat(0 - 1, 1)

\* math.sqrt on the squared norms of the model's vectors (all perfect squares)
ISqrt(n) == CHOOSE r \in 0..n : r * r <= n /\ (r + 1) * (r + 1) > n

RECURSIVE DotUpTo(_, _, _)
DotUpTo(a, b, i) == IF i = 0 THEN 0 ELSE DotUpTo(a, b, i - 1) + a[i] * b[i]

\* a cosine that takes 0 for the similarity to a zero vector
CosineZeroForZeroNorm(a, b) ==
    IF Len(a) = 0 \/ Len(b) = 0 \/ Len(a) # Len(b) THEN RatMinusOne
    ELSE LET dot == DotUpTo(a, b, Len(a))
             na == DotUpTo(a, a, Len(a))
             nb == DotUpTo(b, b, Len(b))
         IN  IF na = 0 \/ nb = 0 THEN Rat(0, 1)
             ELSE Rat(dot, ISqrt(na) * ISqrt(nb))
\* _cosine(a, b)
Cosine(a, b) ==
    IF Len(a) = 0 \/ Len(b) = 0 \/ Len(a) # Len(b) THEN RatMinusOne
    ELSE LET dot == DotUpTo(a, b, Len(a))
             na == DotUpTo(a, a, Len(a))
             nb == DotUpTo(b, b, Len(b))
         IN  IF na = 0 \/ nb = 0 THEN RatMinusOne
             ELSE Rat(dot, ISqrt(na) * ISqrt(nb))

(***************************************************************************)
(* Dates: a date string is a sequence of characters; int(s.replace('-',''))*)
(***************************************************************************)
Digits == {"0", "1", "2", "3", "4", "5", "6", "7", "8", "9"}
DigitVal(c) ==
    CASE c = "0" -> 0 [] c = "1" -> 1 [] c = "2" -> 2 [] c = "3" -> 3
      [] c = "4" -> 4 [] c = "5" -> 5 [] c = "6" -> 6 [] c = "7" -> 7
      [] c = "8" -> 8 [] c = "9" -> 9

\* str.replace('-', '')
StripDashes(s) == SelectSeq(s, LAMBDA c : c # "-")

RECURSIVE DigitsToInt(_, _)
DigitsToInt(s, i) == IF i = 0 THEN 0 ELSE 10 * DigitsToInt(s, i - 1) + DigitVal(s[i])

\* int(str): raises (ok = FALSE) on an empty string or a non-digit character
ParseInt(s) ==
    IF Len(s) > 0 /\ \A i \in 1..Len(s) : s[i] \in Digits
    THEN [ok |-> TRUE, val |-> DigitsToInt(s, Len(s))]
    ELSE [ok |-> FALSE, val |-> 0]

\* int(str(date).replace('-', ''))
ParseYmd(date) == ParseInt(StripDashes(date))

Date14 == <<"2", "0", "2", "4", "-", "0", "6", "-", "1", "4">>
Date15 == <<"2", "0", "2", "4", "-", "0", "6", "-", "1", "5">>
DateBad == <<"j", "u", "n">>
\* an absent filter (None or the empty string: both falsy)
NoDate == <<>>
ShotDates == {Date14, Date15}
DateToFilters == {NoDate, Date14, Date15}
DateFromFilters == DateToFilters \cup {DateBad}

Buildings == {"B1", "B2"}
NoBuilding == ""
BuildingFilters == {NoBuilding, "B1"}

\* payload built at ingestion: shot_ymd = int(str(shot_date).replace('-', ''))
MakeMeta(building, shot_date) ==
    [building |-> building, shot_ymd |-> ParseYmd(shot_date).val]

\* the (vector, payload) pairs that are upserted
Payloads ==
    {[vec |-> V1, meta |-> MakeMeta("B1", Date14)],
     [vec |-> V2, meta |-> MakeMeta("B1", Date15)],
     [vec |-> V1, meta |-> MakeMeta("B2", Date15)]}

(***************************************************************************)
(* State.                                                                  *)
(***************************************************************************)
VARIABLES
    mode,     \* S3VectorStore: "strict" (vector_mode), "fallback" (s3vectors
              \* client present, fallback allowed), "legacy" (s3vectors is None)
    vidx,     \* the S3 Vectors index: id -> {} or {record}
    legacy,   \* the legacy JSON objects under prefix/index/: id -> {} or {doc}
    last,     \* the S3VectorStore call that has just ended: its arguments,
              \* the backend calls it made, its outcome and result
    osIndex,  \* OpenSearch: "knn" (index with the k-NN schema), "dynamic"
              \* (index created by a write, no schema), "absent"
    osDocs,   \* OpenSearch: id -> {} or {document}
    osLast,   \* the VectorStore (OpenSearch) call that has just ended
    async,    \* SiglipService._invoke on an image: position, clock, deadline,
              \* reads made, last_err, result
    backend,  \* the inference backend the invocation talks to
    ex,       \* one application of _extract_embedding_from_data
    lazy,     \* the module globals _siglip and _vectors and the threads that
              \* call get_siglip / get_vectors
    rr,       \* one application of rerank_with_metadata_boost
    owner,    \* for each id, the namespace its last successful upsert named
    scan,     \* one legacy scan of S3VectorStore.search over a bucket listing
    pb,       \* one run of the put_vectors loop of upsert_batch
    dl,       \* one delete_ids or delete_all call, with the keys of each
              \* backend call it makes
    re,       \* one run of the reembed_all management command
    nq,       \* one application of normalize_text_query
    sv,       \* the ingestion and search views: stored metadata, the request
              \* being served and the calls it has made
    cs        \* one application of _cosine

s3vars == <<mode, vidx, legacy, last>>
osvars == <<osIndex, osDocs, osLast>>
pollvars == <<async, backend>>
restvars == <<dl, re, nq, sv, cs>>
loopvars == <<scan, pb, restvars>>
auxvars == <<ex, lazy, rr, owner, loopvars>>
vars == <<mode, vidx, legacy, last, osIndex, osDocs, osLast, async, backend,
          ex, lazy, rr, owner, scan, pb, dl, re, nq, sv, cs>>

Modes == {"strict", "fallback", "legacy"}

Min(x, y) == IF x < y THEN x ELSE y
Take(s, n) == SubSeq(s, 1, Min(n, Len(s)))
Range(s) == {s[j] : j \in 1..Len(s)}

MakeRec(id, vec, meta) ==
    [id |-> id, vec |-> vec, building |-> meta.building, shot_ymd |-> meta.shot_ymd]
Present(store, i) == store[i] # {}
RecOf(store, i) == CHOOSE r \in store[i] : TRUE
EmptyStore == [i \in Ids |-> {}]

NoMeta == [building |-> NoBuilding, shot_ymd |-> 0]
\* request.data.get('shot_date') when the field is absent
NoShotDate == [kind |-> "missing", text |-> <<>>, iso |-> <<>>, ymd |-> 0]
NoCall ==
    [op |-> "none", outcome |-> "ok", calls |-> <<>>, path |-> "none",
     id |-> "", vec |-> <<>>, meta |-> NoMeta, ids |-> <<>>, items |-> <<>>,
     q |-> <<>>, k |-> 0, b |-> NoBuilding, df |-> NoDate, dt |-> NoDate,
     result |-> <<>>, ns |-> "", date |-> NoShotDate, foreign |-> {}]

(***************************************************************************)
(* S3VectorStore: validation, filters, ranking.                            *)
(***************************************************************************)
\* a length check that lets shorter vectors through
DimOKAtMost(v) == Len(v) <= Dim
\* len(vector) != self.dim -> raise ValueError
DimOK(v) == Len(v) = Dim

\* max(1, int(top_k))
Max1(k) == IF k > 1 THEN k ELSE 1

\* the date_from / date_to filter of one row; a date that does not parse is
\* ignored (except Exception: pass)
DateFromKeeps(ymd, df) ==
    IF df = NoDate THEN TRUE
    ELSE LET p == ParseYmd(df) IN IF ~p.ok THEN TRUE ELSE ~(ymd < p.val)
\* an exclusive upper bound
DateToKeepsExclusive(ymd, dt) ==
    IF dt = NoDate THEN TRUE
    ELSE LET p == ParseYmd(dt) IN IF ~p.ok THEN TRUE ELSE ~(ymd >= p.val)
DateToKeeps(ymd, dt) ==
    IF dt = NoDate THEN TRUE
    ELSE LET p == ParseYmd(dt) IN IF ~p.ok THEN TRUE ELSE ~(ymd > p.val)
DateKeeps(ymd, df, dt) == DateFromKeeps(ymd, df) /\ DateToKeeps(ymd, dt)

\* list.sort(key=score, reverse=True): stable, descending
RECURSIVE InsertDesc(_, _)
InsertDesc(s, r) ==
    IF s = <<>> THEN <<r>>
    ELSE IF RatLT(Head(s).score, r.score) THEN <<r>> \o s
    ELSE <<Head(s)>> \o InsertDesc(Tail(s), r)
RECURSIVE SortDescUpTo(_, _)
SortDescUpTo(s, i) == IF i = 0 THEN <<>> ELSE InsertDesc(SortDescUpTo(s, i - 1), s[i])
\* the rows left in the order they were collected
SortDescForgotten(s) == s
SortDesc(s) == SortDescUpTo(s, Len(s))

\* out[:max(1, int(top_k))]
Slice(rows, k) == Take(rows, Max1(k))

(***************************************************************************)
(* The S3 Vectors service (cosine metric): query_vectors returns the topK  *)
(* nearest vectors that match the metadata filter, nearest first; vectors  *)
(* at the same distance come in the service's own order (ord).             *)
(***************************************************************************)
RECURSIVE InsertAsc(_, _)
InsertAsc(s, h) ==
    IF s = <<>> THEN <<h>>
    ELSE IF RatLT(h.distance, Head(s).distance) THEN <<h>> \o s
    ELSE <<Head(s)>> \o InsertAsc(Tail(s), h)
RECURSIVE SortAscUpTo(_, _)
SortAscUpTo(s, i) == IF i = 0 THEN <<>> ELSE InsertAsc(SortAscUpTo(s, i - 1), s[i])

QueryVectors(idx, q, topK, filt, ord) ==
    LET cands == SelectSeq(ord, LAMBDA i :
                    Present(idx, i) /\ (filt = NoBuilding \/ RecOf(idx, i).building = filt))
        hits == [j \in 1..Len(cands) |->
                    LET r == RecOf(idx, cands[j])
                    IN  [key |-> r.id,
                         distance |-> RatSub(RatOne, Cosine(q, r.vec)),
                         metadata |-> [building |-> r.building, shot_ymd |-> r.shot_ymd]]]
    IN  Take(SortAscUpTo(hits, Len(hits)), topK)

\* search through the S3 Vectors index: query, score = 1 - distance, date
\* filters client-side, sort, slice
VectorSearch(idx, q, k, b, df, dt, ord) ==
    LET vectors == QueryVectors(idx, q, Max1(k), b, ord)
        results == [j \in 1..Len(vectors) |->
                       [id |-> vectors[j].key,
                        score |-> RatSub(RatOne, vectors[j].distance),
                        building |-> vectors[j].metadata.building,
                        shot_ymd |-> vectors[j].metadata.shot_ymd]]
        out == SelectSeq(results, LAMBDA r : DateKeeps(r.shot_ymd, df, dt))
    IN  Slice(SortDesc(out), k)

\* the objects list_objects_v2 returns under the collection prefix, in key order
ListedKeys(leg) == SelectSeq(IdOrder, LAMBDA i : Present(leg, i))

\* search by scanning the legacy JSON objects
LegacySearch(leg, q, k, b, df, dt) ==
    LET keys == ListedKeys(leg)
        docs == [j \in 1..Len(keys) |-> RecOf(leg, keys[j])]
        kept == SelectSeq(docs, LAMBDA d :
                    /\ ~(b # NoBuilding /\ d.building # b)
                    /\ DateKeeps(d.shot_ymd, df, dt)
                    /\ Len(d.vec) = Dim)
        best == [j \in 1..Len(kept) |->
                    [id |-> kept[j].id,
                     score |-> Cosine(q, kept[j].vec),
                     building |-> kept[j].building,
                     shot_ymd |-> kept[j].shot_ymd]]
    IN  Slice(SortDesc(best), k)

\* the S3 calls of one scan: one listing, one get_object per listed object
ScanCalls(leg) ==
    <<"list_objects_v2">> \o [j \in 1..Len(ListedKeys(leg)) |-> "get_object"]

Orders == {IdOrder, <<"b", "a">>}

\* every way search(q, k, b, df, dt) can end on the stores vx (index) and lg
\* (legacy objects): the query_vectors call succeeds or fails, the S3 listing
\* succeeds or fails
SearchOutcomes(vx, lg, q, k, b, df, dt) ==
    LET viaVector ==
            {[outcome |-> "ok", path |-> "vector", calls |-> <<"query_vectors">>,
              result |-> VectorSearch(vx, q, k, b, df, dt, ord)] : ord \in Orders}
        vectorRaises ==
            {[outcome |-> "raised", path |-> "vector", calls |-> <<"query_vectors">>,
              result |-> <<>>]}
        viaLegacy(before) ==
            {[outcome |-> "ok", path |-> "legacy", calls |-> before \o ScanCalls(lg),
              result |-> LegacySearch(lg, q, k, b, df, dt)],
             [outcome |-> "raised", path |-> "legacy",
              calls |-> before \o <<"list_objects_v2">>, result |-> <<>>]}
    IN  IF ~DimOK(q)
        THEN {[outcome |-> "raised", path |-> "none", calls |-> <<>>, result |-> <<>>]}
        ELSE CASE mode = "strict" -> viaVector \cup vectorRaises
               [] mode = "fallback" -> viaVector \cup viaLegacy(<<"query_vectors">>)
               [] mode = "legacy" -> viaLegacy(<<>>)

(***************************************************************************)
(* S3VectorStore operations.  Each ...Effect operator gives the stores, the *)
(* backend calls and the outcome of one call; vok, sok, vfail, sfail say    *)
(* which backend calls fail (vfail = n: the n-th S3 Vectors call raises,    *)
(* 0: none).                                                                *)
(***************************************************************************)
Effect(vx, lg, outcome, path, calls) ==
    [vidx |-> vx, legacy |-> lg, outcome |-> outcome, path |-> path, calls |-> calls]

Repeat(name, n) == [j \in 1..n |-> name]
NumChunks(n, size) == (n + size - 1) \div size
FailAt(fail, n) == IF fail \in 1..n THEN fail ELSE 0

\* an upsert that writes the legacy object whenever put_vectors fails, also
\* in strict mode
UpsertEffectLenient(vx, lg, id, v, m, vok, sok) ==
    LET rec == MakeRec(id, v, m)
    IN  IF ~DimOK(v) THEN Effect(vx, lg, "raised", "none", <<>>)
        ELSE IF mode # "legacy" /\ vok
        THEN Effect([vx EXCEPT ![id] = {rec}], lg, "ok", "vector", <<"put_vectors">>)
        ELSE IF sok
        THEN Effect(vx, [lg EXCEPT ![id] = {rec}], "ok", "legacy", <<"put_object">>)
        ELSE Effect(vx, lg, "raised", "legacy", <<"put_object">>)
\* upsert(point_id, vector, payload)
UpsertEffect(vx, lg, id, v, m, vok, sok) ==
    LET rec == MakeRec(id, v, m)
        viaLegacy(before) ==
            IF sok
            THEN Effect(vx, [lg EXCEPT ![id] = {rec}], "ok", "legacy", before \o <<"put_object">>)
            ELSE Effect(vx, lg, "raised", "legacy", before \o <<"put_object">>)
    IN  IF ~DimOK(v) THEN Effect(vx, lg, "raised", "none", <<>>)
        ELSE CASE mode = "strict" ->
                    IF vok
                    THEN Effect([vx EXCEPT ![id] = {rec}], lg, "ok", "vector", <<"put_vectors">>)
                    ELSE Effect(vx, lg, "raised", "vector", <<"put_vectors">>)
               [] mode = "fallback" ->
                    IF vok
                    THEN Effect([vx EXCEPT ![id] = {rec}], lg, "ok", "vector", <<"put_vectors">>)
                    ELSE viaLegacy(<<"put_vectors">>)
               [] mode = "legacy" -> viaLegacy(<<>>)

\* vals = it.get('values') or it.get('vector'); None (or empty) and a wrong
\* length both raise ValueError
ItemValid(it) == it.vals # <<>> /\ Len(it.vals) = Dim

RECURSIVE ValidPrefixLen(_)
ValidPrefixLen(items) ==
    IF items = <<>> \/ ~ItemValid(Head(items)) THEN 0
    ELSE 1 + ValidPrefixLen(Tail(items))

RECURSIVE PutAll(_, _, _)
PutAll(store, items, n) ==
    IF n = 0 THEN store
    ELSE [PutAll(store, items, n - 1) EXCEPT
              ![items[n].id] = {MakeRec(items[n].id, items[n].vals, items[n].meta)}]

\* the put_vectors loop of upsert_batch: a flush at every PutBatchLimit-th
\* item, a last flush after the loop; an invalid item raises where it stands
BatchVectorPhase(vx, items, vfail) ==
    LET p == ValidPrefixLen(items)
        allValid == p = Len(items)
        nFull == p \div PutBatchLimit
        nFlush == nFull + (IF allValid /\ p % PutBatchLimit > 0 THEN 1 ELSE 0)
        flushEnd(c) == IF c = 0 THEN 0 ELSE IF c <= nFull THEN c * PutBatchLimit ELSE p
        f == FailAt(vfail, nFlush)
    IN  IF f > 0
        THEN [vidx |-> PutAll(vx, items, flushEnd(f - 1)), status |-> "failed",
              calls |-> Repeat("put_vectors", f)]
        ELSE [vidx |-> PutAll(vx, items, flushEnd(nFlush)),
              status |-> IF allValid THEN "done" ELSE "invalid",
              calls |-> Repeat("put_vectors", nFlush)]

\* the put_object loop of upsert_batch
BatchLegacyPhase(lg, items, sfail) ==
    LET p == ValidPrefixLen(items)
        s == FailAt(sfail, p)
    IN  IF s > 0
        THEN [legacy |-> PutAll(lg, items, s - 1), outcome |-> "raised",
              calls |-> Repeat("put_object", s)]
        ELSE [legacy |-> PutAll(lg, items, p),
              outcome |-> IF p = Len(items) THEN "ok" ELSE "raised",
              calls |-> Repeat("put_object", p)]

\* upsert_batch(items)
UpsertBatchEffect(vx, lg, items, vfail, sfail) ==
    LET vp == BatchVectorPhase(vx, items, vfail)
        lp(store, before) ==
            LET r == BatchLegacyPhase(store, items, sfail)
            IN  Effect(vp.vidx, r.legacy, r.outcome, "legacy", before \o r.calls)
    IN  IF items = <<>> THEN Effect(vx, lg, "ok", "none", <<>>)
        ELSE CASE mode = "strict" ->
                    Effect(vp.vidx, lg, IF vp.status = "done" THEN "ok" ELSE "raised",
                           "vector", vp.calls)
               [] mode = "fallback" ->
                    IF vp.status = "done"
                    THEN Effect(vp.vidx, lg, "ok", "vector", vp.calls)
                    ELSE lp(lg, vp.calls)
               [] mode = "legacy" ->
                    LET r == BatchLegacyPhase(lg, items, sfail)
                    IN  Effect(vx, r.legacy, r.outcome, "legacy", r.calls)

RemoveAll(store, ids) == [i \in Ids |-> IF i \in ids THEN {} ELSE store[i]]

\* one chunked delete loop: chunks of `size`, the fail-th call raises
ChunkedDelete(store, ids, size, fail, name) ==
    LET n == NumChunks(Len(ids), size)
        f == FailAt(fail, n)
        done == IF f = 0 THEN Len(ids) ELSE (f - 1) * size
    IN  [store |-> RemoveAll(store, Range(Take(ids, done))),
         ok |-> f = 0,
         calls |-> Repeat(name, IF f = 0 THEN n ELSE f)]

\* delete_ids(ids)
DeleteIdsEffect(vx, lg, ids, vfail, sfail) ==
    LET vd == ChunkedDelete(vx, ids, DeleteVectorsLimit, vfail, "delete_vectors")
        ld(before) ==
            LET r == ChunkedDelete(lg, ids, DeleteObjectsLimit, sfail, "delete_objects")
            IN  Effect(vd.store, r.store, IF r.ok THEN "ok" ELSE "raised", "legacy",
                       before \o r.calls)
    IN  IF ids = <<>> THEN Effect(vx, lg, "ok", "none", <<>>)
        ELSE CASE mode = "strict" ->
                    Effect(vd.store, lg, IF vd.ok THEN "ok" ELSE "raised", "vector", vd.calls)
               [] mode = "fallback" ->
                    IF vd.ok THEN Effect(vd.store, lg, "ok", "vector", vd.calls)
                    ELSE ld(vd.calls)
               [] mode = "legacy" ->
                    LET r == ChunkedDelete(lg, ids, DeleteObjectsLimit, sfail, "delete_objects")
                    IN  Effect(vx, r.store, IF r.ok THEN "ok" ELSE "raised", "legacy", r.calls)

\* the legacy sweep of delete_all: list every page under the prefix and
\* delete what it lists
LegacySweep(vx, lg, before, lsok, sfail) ==
    LET keys == ListedKeys(lg)
        r == ChunkedDelete(lg, keys, DeleteObjectsLimit, sfail, "delete_objects")
    IN  IF ~lsok THEN Effect(vx, lg, "raised", "legacy", before \o <<"list_objects_v2">>)
        ELSE Effect(vx, r.store, IF r.ok THEN "ok" ELSE "raised", "legacy",
                    before \o <<"list_objects_v2">> \o r.calls)

\* delete_all(): list_vectors then delete_ids(keys); lvok, lsok: the listing
\* calls succeed; sfail2: the failing delete_objects call of the sweep
DeleteAllEffect(vx, lg, lvok, vfail, sfail, lsok, sfail2) ==
    LET keys == ListedKeys(vx)
        di == DeleteIdsEffect(vx, lg, keys, vfail, sfail)
        viaVector ==
            IF ~lvok THEN Effect(vx, lg, "raised", "vector", <<"list_vectors">>)
            ELSE IF keys = <<>> THEN Effect(vx, lg, "ok", "vector", <<"list_vectors">>)
            ELSE Effect(di.vidx, di.legacy, di.outcome, "vector",
                        <<"list_vectors">> \o di.calls)
    IN  CASE mode = "strict" -> viaVector
          [] mode = "fallback" ->
               IF viaVector.outcome = "ok" THEN viaVector
               ELSE LegacySweep(viaVector.vidx, viaVector.legacy, viaVector.calls, lsok, sfail2)
          [] mode = "legacy" -> LegacySweep(vx, lg, <<>>, lsok, sfail2)

(***************************************************************************)
(* Inputs.                                                                 *)
(***************************************************************************)
Items ==
    {[id |-> i, vals |-> p.vec, meta |-> p.meta] : i \in Ids, p \in Payloads}
    \cup {[id |-> i, vals |-> v, meta |-> NoMeta] : i \in Ids, v \in {<<>>, <<1>>}}
\* batches of records with distinct ids
Batches ==
    {<<>>} \cup {<<x>> : x \in Items}
    \cup {<<pr[1], pr[2]>> : pr \in {qq \in Items \X Items : qq[1].id # qq[2].id}}
IdLists == {<<>>} \cup {<<i>> : i \in Ids} \cup {<<i, j>> : i \in Ids, j \in Ids}
\* which call of a loop fails (0: none)
FailPoints == 0..2
FirstOrNone == 0..1

(***************************************************************************)
(* Actions of the S3VectorStore specification.  One call at a time: a call *)
(* ends in `last`, and Return hands its result to the caller.              *)
(***************************************************************************)
\* observed: the most recent failure seen while polling; cancelAt: when the
\* caller gave up (-1: it has not); raw: the list the text path returned;
\* seen: what the latest read of the output location met; slept: the seconds
\* spent in time.sleep so far
AsyncIdle ==
    [pc |-> "idle", now |-> 0, deadline |-> 0, polls |-> 0, lastErr |-> "none",
     error |-> "none", result |-> <<>>, calls |-> <<>>, observed |-> "none",
     cancelAt |-> 0 - 1, raw |-> [t |-> "none"], seen |-> "none", slept |-> 0]
NoBackend ==
    [readyAfter |-> 0, sent |-> [ok |-> FALSE, vec |-> <<>>],
     output |-> [t |-> "none"], outLoc |-> TRUE, bucket |-> TRUE, textEp |-> TRUE,
     imageEp |-> TRUE]

S3Start == vidx = EmptyStore /\ legacy = EmptyStore /\ last = NoCall
OSStart == osIndex = "knn" /\ osDocs = EmptyStore /\ osLast = NoCall
PollStart == async = AsyncIdle /\ backend = NoBackend
RestStart == dl = <<>> /\ re = <<>> /\ nq = <<>> /\ sv = <<>> /\ cs = <<>>
LoopStart == scan = <<>> /\ pb = <<>> /\ RestStart
AuxStart == ex = <<>> /\ lazy = <<>> /\ rr = <<>> /\ owner = <<>> /\ LoopStart

\* after S3VectorStore.__init__, in each of its three modes
Init ==
    /\ mode \in Modes
    /\ S3Start /\ OSStart /\ PollStart /\ AuxStart

Idle == last.op = "none"

Finish(call, e) ==
    /\ last' = [call EXCEPT !.outcome = e.outcome, !.path = e.path, !.calls = e.calls]
    /\ vidx' = e.vidx
    /\ legacy' = e.legacy
    /\ UNCHANGED <<mode, osvars, pollvars, auxvars>>

Upsert(id, v, m, vok, sok) ==
    Finish([NoCall EXCEPT !.op = "upsert", !.id = id, !.vec = v, !.meta = m],
           UpsertEffect(vidx, legacy, id, v, m, vok, sok))

UpsertBatch(items, vfail, sfail) ==
    Finish([NoCall EXCEPT !.op = "upsert_batch", !.items = items],
           UpsertBatchEffect(vidx, legacy, items, vfail, sfail))

DeleteIds(ids, vfail, sfail) ==
    Finish([NoCall EXCEPT !.op = "delete_ids", !.ids = ids],
           DeleteIdsEffect(vidx, legacy, ids, vfail, sfail))

DeleteAll(lvok, vfail, sfail, lsok, sfail2) ==
    Finish([NoCall EXCEPT !.op = "delete_all"],
           DeleteAllEffect(vidx, legacy, lvok, vfail, sfail, lsok, sfail2))

Search(q, k, b, df, dt) ==
    /\ \E o \in SearchOutcomes(vidx, legacy, q, k, b, df, dt) :
          last' = [NoCall EXCEPT !.op = "search", !.q = q, !.k = k, !.b = b,
                                 !.df = df, !.dt = dt, !.outcome = o.outcome,
                                 !.path = o.path, !.calls = o.calls,
                                 !.result = o.result]
    /\ UNCHANGED <<mode, vidx, legacy, osvars, pollvars, auxvars>>

\* the caller takes the result of the call
Return ==
    /\ ~Idle
    /\ last' = NoCall
    /\ UNCHANGED <<mode, vidx, legacy, osvars, pollvars, auxvars>>

Next ==
    \/ /\ Idle
       /\ \E id \in Ids, p \in Payloads, vok \in BOOLEAN, sok \in BOOLEAN :
              Upsert(id, p.vec, p.meta, vok, sok)
    \/ /\ Idle
       /\ \E id \in Ids, v \in BadVecs, vok \in BOOLEAN, sok \in BOOLEAN :
              Upsert(id, v, NoMeta, vok, sok)
    \/ /\ Idle
       /\ \E items \in Batches, vfail \in FirstOrNone, sfail \in FailPoints :
              UpsertBatch(items, vfail, sfail)
    \/ /\ Idle
       /\ \E ids \in IdLists, vfail \in FirstOrNone, sfail \in FirstOrNone :
              DeleteIds(ids, vfail, sfail)
    \/ /\ Idle
       /\ \E lvok \in BOOLEAN, vfail \in FirstOrNone, sfail \in FirstOrNone,
             lsok \in BOOLEAN, sfail2 \in FirstOrNone :
              DeleteAll(lvok, vfail, sfail, lsok, sfail2)
    \/ /\ Idle
       /\ \E q \in GoodVecs, k \in 0..MaxTopK, b \in BuildingFilters,
             df \in DateFromFilters, dt \in DateToFilters :
              Search(q, k, b, df, dt)
    \/ /\ Idle
       /\ \E q \in BadVecs, k \in 0..MaxTopK :
              Search(q, k, NoBuilding, NoDate, NoDate)
    \/ Return

Spec == Init /\ [][Next]_vars


(***************************************************************************)
(* VectorStore (OpenSearch).  The cluster: client.index on an absent index *)
(* creates it with a dynamic mapping (no knn_vector schema); a knn_vector  *)
(* field rejects a vector of another dimension; client.delete of a         *)
(* document or index that does not exist raises NotFoundError.             *)
(***************************************************************************)
OSEffect(ix, docs, outcome, calls) ==
    [index |-> ix, docs |-> docs, outcome |-> outcome, calls |-> calls]

\* client.index(index, id, body): the state of the cluster after the call
\* and whether the cluster accepted the document
OSIndexDoc(ix, docs, id, v, m) ==
    IF ix = "knn" /\ Len(v) # Dim
    THEN [index |-> ix, docs |-> docs, ok |-> FALSE]
    ELSE [index |-> IF ix = "absent" THEN "dynamic" ELSE ix,
          docs |-> [docs EXCEPT ![id] = {MakeRec(id, v, m)}], ok |-> TRUE]

\* VectorStore.upsert(point_id, vector, payload)
OSUpsertEffect(ix, docs, id, v, m) ==
    LET r == OSIndexDoc(ix, docs, id, v, m)
    IN  OSEffect(r.index, r.docs, IF r.ok THEN "ok" ELSE "raised", <<"index">>)

\* VectorStore.upsert_batch(items): validate and index one by one, then refresh
RECURSIVE OSBatchFrom(_, _, _, _, _)
OSBatchFrom(ix, docs, items, j, calls) ==
    IF j > Len(items)
    THEN OSEffect(ix, docs, IF ix = "absent" THEN "raised" ELSE "ok", calls \o <<"refresh">>)
    ELSE IF ~ItemValid(items[j]) THEN OSEffect(ix, docs, "raised", calls)
    ELSE LET r == OSIndexDoc(ix, docs, items[j].id, items[j].vals, items[j].meta)
         IN  IF ~r.ok THEN OSEffect(ix, docs, "raised", calls \o <<"index">>)
             ELSE OSBatchFrom(r.index, r.docs, items, j + 1, calls \o <<"index">>)
OSUpsertBatchEffect(ix, docs, items) == OSBatchFrom(ix, docs, items, 1, <<>>)

\* VectorStore.delete_ids(ids): client.delete per id, then refresh
RECURSIVE OSDeleteFrom(_, _, _, _, _)
OSDeleteFrom(ix, docs, ids, j, calls) ==
    IF j > Len(ids) THEN OSEffect(ix, docs, "ok", calls \o <<"refresh">>)
    ELSE IF ix = "absent" \/ ~Present(docs, ids[j])
    THEN OSEffect(ix, docs, "raised", calls \o <<"delete">>)
    ELSE OSDeleteFrom(ix, [docs EXCEPT ![ids[j]] = {}], ids, j + 1, calls \o <<"delete">>)
OSDeleteIdsEffect(ix, docs, ids) ==
    IF ids = <<>> THEN OSEffect(ix, docs, "ok", <<>>)
    ELSE OSDeleteFrom(ix, docs, ids, 1, <<>>)

\* VectorStore.delete_all(): client.indices.delete(index)
OSDeleteAllEffect(ix, docs) ==
    IF ix = "absent" THEN OSEffect(ix, docs, "raised", <<"indices.delete">>)
    ELSE OSEffect("absent", EmptyStore, "ok", <<"indices.delete">>)

\* the hits of client.search: the documents that pass the bool filter, best
\* score first, at most `size`; cosinesimil scores are (1 + cosine) / 2
OSHits(docs, q, size, b, df, dt) ==
    LET keys == ListedKeys(docs)
        all == [j \in 1..Len(keys) |-> RecOf(docs, keys[j])]
        gte == IF df # NoDate /\ ParseYmd(df).ok THEN {ParseYmd(df).val} ELSE {}
        lte == IF dt # NoDate /\ ParseYmd(dt).ok THEN {ParseYmd(dt).val} ELSE {}
        kept == SelectSeq(all, LAMBDA d :
                    /\ (b = NoBuilding \/ d.building = b)
                    /\ \A lo \in gte : lo <= d.shot_ymd
                    /\ \A hi \in lte : d.shot_ymd <= hi)
        hits == [j \in 1..Len(kept) |->
                    LET c == Cosine(q, kept[j].vec)
                    IN  [id |-> kept[j].id, score |-> Rat(c.n + c.d, 2 * c.d),
                         building |-> kept[j].building, shot_ymd |-> kept[j].shot_ymd]]
    IN  Take(SortDescUpTo(hits, Len(hits)), size)

\* VectorStore.search(query_vector, top_k, building, date_from, date_to)
OSSearchEffect(ix, docs, q, k, b, df, dt) ==
    IF ix = "knn" /\ Len(q) = Dim
    THEN [outcome |-> "ok", calls |-> <<"search">>, result |-> OSHits(docs, q, k, b, df, dt)]
    ELSE [outcome |-> "raised", calls |-> <<"search">>, result |-> <<>>]

(***************************************************************************)
(* Actions of the VectorStore (OpenSearch) specification.                  *)
(***************************************************************************)
\* after __init__: _ensure_index has created the k-NN index
InitOS ==
    /\ mode = "legacy"
    /\ S3Start /\ OSStart /\ PollStart /\ AuxStart

OSIdle == osLast.op = "none"

OSFinish(call, e) ==
    /\ osLast' = [call EXCEPT !.outcome = e.outcome, !.calls = e.calls]
    /\ osIndex' = e.index
    /\ osDocs' = e.docs
    /\ UNCHANGED <<s3vars, pollvars, auxvars>>

OSUpsert(id, v, m) ==
    OSFinish([NoCall EXCEPT !.op = "upsert", !.id = id, !.vec = v, !.meta = m],
             OSUpsertEffect(osIndex, osDocs, id, v, m))

OSUpsertBatch(items) ==
    OSFinish([NoCall EXCEPT !.op = "upsert_batch", !.items = items],
             OSUpsertBatchEffect(osIndex, osDocs, items))

OSDeleteIds(ids) ==
    OSFinish([NoCall EXCEPT !.op = "delete_ids", !.ids = ids],
             OSDeleteIdsEffect(osIndex, osDocs, ids))

OSDeleteAll ==
    OSFinish([NoCall EXCEPT !.op = "delete_all"], OSDeleteAllEffect(osIndex, osDocs))

OSSearch(q, k, b, df, dt) ==
    LET e == OSSearchEffect(osIndex, osDocs, q, k, b, df, dt)
    IN  /\ osLast' = [NoCall EXCEPT !.op = "search", !.q = q, !.k = k, !.b = b,
                                    !.df = df, !.dt = dt, !.outcome = e.outcome,
                                    !.calls = e.calls, !.result = e.result]
        /\ UNCHANGED <<osIndex, osDocs, s3vars, pollvars, auxvars>>

\* the caller takes the result of the call
OSReturn ==
    /\ ~OSIdle
    /\ osLast' = NoCall
    /\ UNCHANGED <<osIndex, osDocs, s3vars, pollvars, auxvars>>

NextOS ==
    \/ /\ OSIdle
       /\ \E id \in Ids, p \in Payloads : OSUpsert(id, p.vec, p.meta)
    \/ /\ OSIdle
       /\ \E id \in Ids, v \in BadVecs : OSUpsert(id, v, NoMeta)
    \/ /\ OSIdle
       /\ \E items \in Batches : OSUpsertBatch(items)
    \/ /\ OSIdle
       /\ \E ids \in IdLists : OSDeleteIds(ids)
    \/ /\ OSIdle
       /\ OSDeleteAll
    \/ /\ OSIdle
       /\ \E q \in GoodVecs, k \in 0..MaxTopK, b \in BuildingFilters,
             df \in DateFromFilters, dt \in DateToFilters :
              OSSearch(q, k, b, df, dt)
    \/ /\ OSIdle
       /\ \E q \in BadVecs, k \in 0..MaxTopK :
              OSSearch(q, k, NoBuilding, NoDate, NoDate)
    \/ OSReturn

SpecOS == InitOS /\ [][NextOS]_vars

(***************************************************************************)
(* JSON values as the embedding client sees them.  A string holds the JSON *)
(* text of a value (json.loads gives that value back) or text that is not  *)
(* JSON (json.loads raises).                                               *)
(***************************************************************************)
JNone == [t |-> "none"]
JGarbage == [t |-> "garbage"]
JNum(x) == [t |-> "num", v |-> x]
JList(items) == [t |-> "list", items |-> items]
JDict(fields) == [t |-> "dict", fields |-> fields]
JStr(text) == [t |-> "str", text |-> text]
JNumList(v) == JList([j \in 1..Len(v) |-> JNum(v[j])])

\* json.loads(s)
JsonLoads(s) ==
    IF s.text.t = "garbage" THEN [ok |-> FALSE, val |-> JNone]
    ELSE [ok |-> TRUE, val |-> s.text]

\* d.get(key)
JGet(d, key) == IF key \in DOMAIN d.fields THEN d.fields[key] ELSE JNone

\* a truth test that takes every value, None included, for true
JTruthyAlways(x) == TRUE
\* truth value of a JSON value (x or y)
JTruthy(x) ==
    CASE x.t = "none" -> FALSE
      [] x.t = "num" -> x.v # 0
      [] x.t = "list" -> x.items # <<>>
      [] x.t = "dict" -> DOMAIN x.fields # {}
      [] OTHER -> TRUE

\* isinstance(vec, list) and all(isinstance(x, (int, float)) for x in vec)
JIsNumList(x) == x.t = "list" /\ \A j \in 1..Len(x.items) : x.items[j].t = "num"
\* the list read back to front
JFloatsReversed(x) == [j \in 1..Len(x.items) |-> x.items[Len(x.items) + 1 - j].v]
\* [float(x) for x in vec]
JFloats(x) == [j \in 1..Len(x.items) |-> x.items[j].v]

NoVec == [ok |-> FALSE, vec |-> <<>>]
SomeVec(v) == [ok |-> TRUE, vec |-> v]

\* _extract_embedding_from_data(data); ok = FALSE stands for None
RECURSIVE ExtractEmbedding(_)
RECURSIVE ExtractFromItems(_, _)
ExtractEmbedding(data) ==
    IF data.t = "dict"
    THEN LET vec == JGet(data, "embedding")
             body == IF JTruthy(JGet(data, "body")) THEN JGet(data, "body")
                     ELSE JGet(data, "Body")
         IN  IF JIsNumList(vec) THEN SomeVec(JFloats(vec))
             ELSE IF body.t = "str"
             THEN IF JsonLoads(body).ok THEN ExtractEmbedding(JsonLoads(body).val)
                  ELSE NoVec
             ELSE NoVec
    ELSE IF data.t = "list" /\ data.items # <<>> /\ JIsNumList(data)
    THEN SomeVec(JFloats(data))
    ELSE IF data.t = "list" THEN ExtractFromItems(data.items, 1)
    ELSE NoVec
ExtractFromItems(items, j) ==
    IF j > Len(items) THEN NoVec
    ELSE LET item == items[j]
             vec == JGet(item, "embedding")
             body == IF JTruthy(JGet(item, "body")) THEN JGet(item, "body")
                     ELSE JGet(item, "Body")
             inner == IF item.t = "dict" THEN body ELSE item
             maybe == IF inner.t = "str" /\ JsonLoads(inner).ok
                      THEN ExtractEmbedding(JsonLoads(inner).val) ELSE NoVec
         IN  IF item.t = "dict" /\ JIsNumList(vec) THEN SomeVec(JFloats(vec))
             ELSE IF item.t \in {"dict", "str"} /\ maybe.ok THEN maybe
             ELSE ExtractFromItems(items, j + 1)

(***************************************************************************)
(* The async inference backend of the model: the output object is absent   *)
(* for the first readyAfter reads and then holds `output`.                 *)
(***************************************************************************)
FlatEnvelope(v) == JDict("embedding" :> JNumList(v))
BareEnvelope(v) == JNumList(v)
ListEnvelope(v) == JList(<<JDict("embedding" :> JNumList(v))>>)
BodyEnvelope(v) == JDict("body" :> JStr(FlatEnvelope(v)))
ErrorEnvelope == JDict("message" :> JStr(JGarbage))

\* what the backend writes: the vector it computed (sent) and the object text
PollVecs == GoodVecs \cup {<<1>>}
Envelopes(v) == {FlatEnvelope(v), BareEnvelope(v), ListEnvelope(v), BodyEnvelope(v)}
ValidOutputs ==
    UNION {{[sent |-> SomeVec(v), output |-> JStr(e)] : e \in Envelopes(v)} :
              v \in PollVecs}
\* {"embedding": ["x"]}: a list, but not of numbers
StringsEnvelope == JDict("embedding" :> JList(<<JStr(JGarbage)>>))
\* [{"message": ...}]: a list body that carries no embedding
ListErrorEnvelope == JList(<<ErrorEnvelope>>)
BadOutputs ==
    {[sent |-> NoVec, output |-> JStr(ErrorEnvelope)],
     [sent |-> NoVec, output |-> JStr(StringsEnvelope)],
     [sent |-> NoVec, output |-> JStr(ListErrorEnvelope)],
     [sent |-> NoVec, output |-> JStr(JGarbage)]}
\* {"embedding": []}
EmptyOutputs == {[sent |-> SomeVec(<<>>), output |-> JStr(FlatEnvelope(<<>>))]}
Outputs == ValidOutputs \cup BadOutputs \cup EmptyOutputs

(***************************************************************************)
(* SiglipService._invoke.  Image payload: stage the request, invoke the    *)
(* async endpoint, poll the output location until the deadline.  Text      *)
(* payload: one realtime invocation.                                       *)
(***************************************************************************)
\* the backend of one invocation, fixed when the request is made
InitPoll ==
    /\ mode = "legacy"
    /\ S3Start /\ OSStart /\ AuxStart
    /\ async = AsyncIdle
    /\ \E n \in 0..MaxNotReady, o \in Outputs, loc \in BOOLEAN, bkt \in BOOLEAN,
          tep \in BOOLEAN, iep \in BOOLEAN :
          backend = [readyAfter |-> n, sent |-> o.sent, output |-> o.output,
                     outLoc |-> loc, bucket |-> bkt, textEp |-> tep, imageEp |-> iep]

\* the endpoint invoked before the request has been staged
StageCallsInvokeFirst == <<"invoke_endpoint_async", "put_object">>
\* lines 105-112: s3.put_object(Key=<prefix>/<uuid4>.json), then
\* client.invoke_endpoint_async(InputLocation=s3://<bucket>/<that key>)
StageCalls == <<"put_object", "invoke_endpoint_async">>

\* lines 96-125: endpoint check, bucket check, put_object,
\* invoke_endpoint_async, deadline; putOk, invOk: the two calls succeed (a
\* failure of either propagates to the caller)
InvokeImage(putOk, invOk) ==
    /\ async.pc = "idle"
    /\ async' =
          IF ~backend.imageEp
          THEN [async EXCEPT !.pc = "unconfigured", !.error = "no endpoint"]
          ELSE IF ~backend.bucket
          THEN [async EXCEPT !.pc = "raised", !.error = "no bucket"]
          ELSE IF ~putOk
          THEN [async EXCEPT !.pc = "call_failed", !.error = "put_object",
                             !.calls = Take(StageCalls, 1)]
          ELSE IF ~invOk
          THEN [async EXCEPT !.pc = "call_failed", !.error = "invoke_endpoint_async",
                             !.calls = StageCalls]
          ELSE [async EXCEPT !.pc = "loop", !.calls = StageCalls,
                             !.deadline = async.now + AsyncTimeout]
    /\ UNCHANGED <<backend, s3vars, osvars, auxvars>>

\* lines 150-164: the realtime invocation of a text payload
\* vec = _extract_embedding_from_data(body) or body.get('embedding')
InvokeText ==
    LET loaded == JsonLoads(backend.output)
        body == loaded.val
        ext == ExtractEmbedding(body)
        called == [async EXCEPT !.calls = <<"invoke_endpoint">>]
    IN  /\ async.pc = "idle"
        /\ async' =
              IF ~backend.textEp
              THEN [async EXCEPT !.pc = "text_raised", !.error = "no endpoint"]
              ELSE IF ~loaded.ok
              THEN [called EXCEPT !.pc = "text_raised", !.error = "json error"]
              ELSE IF ext.ok /\ ext.vec # <<>>
              THEN [called EXCEPT !.pc = "text_returned", !.raw = JNumList(ext.vec)]
              ELSE IF body.t # "dict"
              THEN [called EXCEPT !.pc = "text_raised", !.error = "attribute error"]
              ELSE IF JGet(body, "embedding").t = "list"
              THEN [called EXCEPT !.pc = "text_returned", !.raw = JGet(body, "embedding")]
              ELSE [called EXCEPT !.pc = "text_raised", !.error = "bad response"]
        /\ UNCHANGED <<backend, s3vars, osvars, auxvars>>

\* the S3 calls of one read of the output location
ReadCalls(present) ==
    IF backend.outLoc THEN <<"get_object">>
    ELSE IF present THEN <<"list_objects_v2", "get_object">>
    ELSE <<"list_objects_v2">>

\* a handler that records the missing object as the last error
OnNoSuchKeyRecorded(a) ==
    [a EXCEPT !.pc = "sleep", !.seen = "absent", !.lastErr = "no such key",
              !.observed = "no such key"]
\* except NoSuchKey: pass -- on to the sleep
OnNoSuchKey(a) == [a EXCEPT !.pc = "sleep", !.seen = "absent"]

\* one pass of the loop body up to the sleep: the read takes dur seconds;
\* readOk: the S3 calls of the read raise nothing but NoSuchKey
Poll(dur, readOk) ==
    LET present == async.polls >= backend.readyAfter
        loaded == JsonLoads(backend.output)
        vec == ExtractEmbedding(loaded.val)
        polled == [async EXCEPT !.now = async.now + dur, !.polls = async.polls + 1,
                                !.calls = async.calls \o ReadCalls(present)]
        failed(err) == [polled EXCEPT !.pc = "sleep", !.seen = err, !.lastErr = err,
                                      !.observed = err]
    IN  /\ async.pc = "loop"
        /\ async.now < async.deadline
        /\ async' =
              IF ~readOk THEN failed("read error")
              ELSE IF ~present THEN OnNoSuchKey(polled)
              ELSE IF ~loaded.ok THEN failed("json error")
              ELSE IF vec.ok
              THEN [polled EXCEPT !.pc = "returned", !.seen = "vector", !.result = vec.vec]
              ELSE failed("bad shape")
        /\ UNCHANGED <<backend, s3vars, osvars, auxvars>>

\* the loop goes round without sleeping
SleepSkipped ==
    /\ async.pc = "sleep"
    /\ async' = [async EXCEPT !.pc = "loop"]
    /\ UNCHANGED <<backend, s3vars, osvars, auxvars>>
\* time.sleep(2)
Sleep ==
    /\ async.pc = "sleep"
    /\ async' = [async EXCEPT !.pc = "loop", !.now = async.now + SleepInterval,
                              !.slept = async.slept + SleepInterval]
    /\ UNCHANGED <<backend, s3vars, osvars, auxvars>>

\* an error message that forgets what polling saw
TimeoutErrorGeneric(lastErr) == "timed out"
\* last_err or 'Timed out waiting for async output'
TimeoutError(lastErr) == IF lastErr = "none" THEN "timed out" ELSE lastErr

\* the loop condition fails: raise RuntimeError(last_err or 'Timed out ...')
TimeOut ==
    /\ async.pc = "loop"
    /\ async.now >= async.deadline
    /\ async' = [async EXCEPT !.pc = "raised", !.error = TimeoutError(async.lastErr)]
    /\ UNCHANGED <<backend, s3vars, osvars, auxvars>>

\* the caller of _invoke gives up (its own timeout fires, the request is
\* cancelled); the loop has no statement that looks at it
Cancel ==
    /\ async.pc \in {"loop", "sleep"}
    /\ async.cancelAt < 0
    /\ async' = [async EXCEPT !.cancelAt = async.now]
    /\ UNCHANGED <<backend, s3vars, osvars, auxvars>>

NextPoll ==
    \/ \E putOk \in BOOLEAN, invOk \in BOOLEAN : InvokeImage(putOk, invOk)
    \/ InvokeText
    \/ \E dur \in 0..MaxReadTime, readOk \in BOOLEAN : Poll(dur, readOk)
    \/ Sleep
    \/ TimeOut
    \/ Cancel

SpecPoll == InitPoll /\ [][NextPoll]_vars

(***************************************************************************)
(* Properties of S3VectorStore (specification Spec).                       *)
(***************************************************************************)
StoredIn(store) == {i \in Ids : Present(store, i)}
RowIds(rows) == {rows[j].id : j \in 1..Len(rows)}
NonIncreasing(rows) ==
    \A j \in 1..(Len(rows) - 1) : RatLE(rows[j + 1].score, rows[j].score)
\* the searches a caller can issue right now for q with top_k = k, no filters
SearchesNow(q, k) == SearchOutcomes(vidx, legacy, q, k, NoBuilding, NoDate, NoDate)

\* C1: upsert and search called with a vector whose length differs from dim
\* raise before any call is made on the S3 client or the S3 Vectors client,
\* in every mode.
C1_MismatchRaisesBeforeAnyCall ==
    /\ (last.op = "upsert" /\ Len(last.vec) # Dim)
          => (last.outcome = "raised" /\ last.calls = <<>>)
    /\ (last.op = "search" /\ Len(last.q) # Dim)
          => (last.outcome = "raised" /\ last.calls = <<>>)
C1_Witness ==
    /\ last.op = "search" /\ Len(last.q) # Dim /\ last.outcome = "raised"
    /\ mode = "fallback" /\ Present(vidx, "a") /\ Present(legacy, "b")

\* C3: after upsert(id, v, meta) returned normally, an immediately following
\* search(v, top_k = 1) without filters that returns normally has id as its
\* first element, provided no other stored record scores as high, whichever
\* storage path each of the two calls takes.
C3_NoRival(id, v) ==
    \A i \in Ids \ {id} :
        /\ Present(vidx, i) => RatLT(Cosine(v, RecOf(vidx, i).vec), RatOne)
        /\ Present(legacy, i) => RatLT(Cosine(v, RecOf(legacy, i).vec), RatOne)
C3_RoundTrip ==
    (last.op = "upsert" /\ last.outcome = "ok" /\ C3_NoRival(last.id, last.vec))
        => \A o \in SearchesNow(last.vec, 1) :
               o.outcome = "ok" => (o.result # <<>> /\ o.result[1].id = last.id)

\* C4: after a successful upsert of an id the store holds exactly one record
\* for that id, counting the S3 Vectors index and the legacy JSON objects; it
\* carries the vector and metadata of that upsert; and no search returns the
\* id with the score or metadata of an earlier upsert.
C4_Copies(id) ==
    (IF Present(vidx, id) THEN 1 ELSE 0) + (IF Present(legacy, id) THEN 1 ELSE 0)
C4_UpsertIdempotent ==
    (last.op = "upsert" /\ last.outcome = "ok")
        => /\ C4_Copies(last.id) = 1
           /\ \A r \in vidx[last.id] \cup legacy[last.id] :
                  r = MakeRec(last.id, last.vec, last.meta)
           /\ \A q \in GoodVecs : \A o \in SearchesNow(q, MaxTopK) :
                  \A j \in 1..Len(o.result) :
                      o.result[j].id = last.id
                          => /\ o.result[j].score = Cosine(q, last.vec)
                             /\ o.result[j].building = last.meta.building
                             /\ o.result[j].shot_ymd = last.meta.shot_ymd

\* C5: after delete_all returned normally the collection is empty in both
\* storage locations and no search, on either path, returns a record.
C5_DeleteAllEmpties ==
    (last.op = "delete_all" /\ last.outcome = "ok")
        => /\ StoredIn(vidx) = {} /\ StoredIn(legacy) = {}
           /\ \A q \in GoodVecs : \A o \in SearchesNow(q, MaxTopK) : o.result = <<>>

\* C7 as stated: the list search returns is ordered by non-increasing score
\* and has at most top_k elements, for every top_k.
C7_AtMostTopK ==
    (last.op = "search" /\ last.outcome = "ok")
        => (NonIncreasing(last.result) /\ Len(last.result) <= last.k)
\* C7 as amended: the list search returns is ordered by non-increasing score
\* and has at most max(1, top_k) elements.
C7_AtMostTopKOrOne ==
    (last.op = "search" /\ last.outcome = "ok")
        => /\ NonIncreasing(last.result)
           /\ Len(last.result) <= (IF last.k >= 1 THEN last.k ELSE 1)
C7_Witness ==
    /\ last.op = "search" /\ last.outcome = "ok" /\ last.path = "legacy"
    /\ last.k = MaxTopK /\ Len(last.result) = 2
    /\ RatLT(last.result[2].score, last.result[1].score)

\* C8: date filtering is an inclusive range on shot_ymd in every search path:
\* a record with shot_ymd = d is kept iff (date_from is absent or
\* YYYYMMDD(date_from) <= d) and (date_to is absent or d <= YYYYMMDD(date_to)).
\* Stated on the result: every returned row lies in the range, and when top_k
\* does not cut (top_k >= number of stored records) the returned ids are
\* exactly the stored records of the path read that match the building and
\* lie in the range.
C8_Field(date, from, to) == DigitsToInt(SubSeq(date, from, to), to - from + 1)
\* YYYYMMDD of a well-formed "YYYY-MM-DD" date
C8_Ymd(date) ==
    C8_Field(date, 1, 4) * 10000 + C8_Field(date, 6, 7) * 100 + C8_Field(date, 9, 10)
C8_InRange(d, df, dt) ==
    /\ (df = NoDate \/ C8_Ymd(df) <= d)
    /\ (dt = NoDate \/ d <= C8_Ymd(dt))
C8_DateFilterInclusive ==
    (last.op = "search" /\ last.outcome = "ok" /\ last.df # DateBad)
        => LET store == IF last.path = "vector" THEN vidx ELSE legacy
               wanted == {i \in StoredIn(store) :
                             /\ (last.b = NoBuilding \/ RecOf(store, i).building = last.b)
                             /\ C8_InRange(RecOf(store, i).shot_ymd, last.df, last.dt)}
           IN  /\ \A j \in 1..Len(last.result) :
                      C8_InRange(last.result[j].shot_ymd, last.df, last.dt)
               /\ last.k >= Cardinality(StoredIn(store)) => RowIds(last.result) = wanted
C8_Witness ==
    /\ last.op = "search" /\ last.outcome = "ok" /\ last.path = "vector"
    /\ last.df = Date15 /\ last.dt = Date15 /\ last.k = MaxTopK
    /\ Cardinality(StoredIn(vidx)) = 2
    /\ \E i \in Ids : RecOf(vidx, i).shot_ymd = C8_Ymd(Date14)
    /\ Len(last.result) = 1 /\ last.result[1].shot_ymd = C8_Ymd(Date15)

\* C9: upsert_batch never silently drops a record: if the call returns
\* normally every record of the batch is in the store and visible to a later
\* search; if a record has no values or a vector of length # dim, it raises.
C9_Invalid(it) == it.vals = <<>> \/ Len(it.vals) # Dim
C9_Written(it) ==
    \E r \in vidx[it.id] \cup legacy[it.id] : r = MakeRec(it.id, it.vals, it.meta)
C9_BatchNeverDrops ==
    last.op = "upsert_batch"
        => /\ (\E j \in 1..Len(last.items) : C9_Invalid(last.items[j]))
                 => last.outcome = "raised"
           /\ last.outcome = "ok"
                 => \A j \in 1..Len(last.items) :
                        /\ C9_Written(last.items[j])
                        /\ \A o \in SearchesNow(last.items[j].vals, MaxTopK) :
                               o.outcome = "ok" => last.items[j].id \in RowIds(o.result)

(***************************************************************************)
(* Properties of VectorStore (OpenSearch), under SpecOS                    *)
(***************************************************************************)

\* C2: VectorStore.upsert and VectorStore.search given a vector whose length
\* is not dim raise without having made any client call.
C2_OSMismatchRaisesBeforeAnyCall ==
    /\ (osLast.op = "upsert" /\ Len(osLast.vec) # Dim)
           => (osLast.outcome = "raised" /\ osLast.calls = <<>>)
    /\ (osLast.op = "search" /\ Len(osLast.q) # Dim)
           => (osLast.outcome = "raised" /\ osLast.calls = <<>>)

\* C6: delete_ids does not raise, whether or not the ids it is given are
\* stored, and afterwards none of them is stored.
C6_DeleteIdsIdempotent ==
    osLast.op = "delete_ids"
       => /\ osLast.outcome = "ok"
          /\ \A j \in 1..Len(osLast.ids) : ~Present(osDocs, osLast.ids[j])

(***************************************************************************)
(* Properties of SiglipService._invoke, under SpecPoll                     *)
(***************************************************************************)
ValidPayload == backend.sent.ok

\* C10: when the output object appears with a valid embedding payload,
\* _invoke returns exactly the vector of that payload; with such a payload
\* and no failed read it raises only if the deadline passed while the
\* object was still absent.
C10_AsyncPollingSuccess ==
    /\ async.pc = "returned"
          => (ValidPayload /\ async.result = backend.sent.vec)
    /\ (async.pc = "raised" /\ backend.bucket /\ ValidPayload /\ async.lastErr = "none")
          => (async.polls <= backend.readyAfter /\ async.now >= async.deadline)
    /\ (async.pc = "sleep" /\ ValidPayload /\ async.lastErr = "none")
          => async.polls <= backend.readyAfter

\* absent for two reads, then the nested-body payload of V2 is returned
C10_Witness ==
    /\ async.pc = "returned"
    /\ backend.readyAfter = 2
    /\ async.polls = 3
    /\ backend.output = JStr(BodyEnvelope(V2))
    /\ async.result = V2

(***************************************************************************)
(* _extract_embedding_from_data applied to one envelope (SpecExtract).     *)
(***************************************************************************)
ExVecs == {<<>>, <<0>>, <<1>>, V1, V2, <<3, 4, 0>>, <<0 - 1, 2>>}
ExShapes ==
    {"flat", "bare", "list", "list_after_invalid",
     "body_flat", "Body_flat", "body_bare", "body_list"}
\* the envelope of shape sh that carries v
Envelope(sh, v) ==
    CASE sh = "flat" -> FlatEnvelope(v)
      [] sh = "bare" -> BareEnvelope(v)
      [] sh = "list" -> ListEnvelope(v)
      [] sh = "list_after_invalid" ->
            JList(<<ErrorEnvelope, StringsEnvelope, FlatEnvelope(v)>>)
      [] sh = "body_flat" -> BodyEnvelope(v)
      [] sh = "Body_flat" -> JDict("Body" :> JStr(FlatEnvelope(v)))
      [] sh = "body_bare" -> JDict("body" :> JStr(BareEnvelope(v)))
      [] sh = "body_list" -> JDict("body" :> JStr(ListEnvelope(v)))

InitExtract ==
    /\ mode = "legacy"
    /\ S3Start /\ OSStart /\ PollStart
    /\ lazy = <<>> /\ rr = <<>> /\ owner = <<>> /\ LoopStart
    /\ \E v \in ExVecs, sh \in ExShapes :
          ex = [pc |-> "input", v |-> v, shape |-> sh, data |-> Envelope(sh, v),
                out |-> NoVec]

Extract ==
    /\ ex.pc = "input"
    /\ ex' = [ex EXCEPT !.pc = "done", !.out = ExtractEmbedding(ex.data)]
    /\ UNCHANGED <<s3vars, osvars, pollvars, lazy, rr, owner, loopvars>>

NextExtract == Extract

SpecExtract == InitExtract /\ [][NextExtract]_vars

\* C14 as stated: the extractor returns the identical vector v for each
\* envelope shape that carries v.
C14_SameVectorEveryShape ==
    ex.pc = "done" => ex.out = SomeVec(ex.v)
\* C14 as amended: the extractor returns the identical vector v for each
\* envelope shape that carries a non-empty v.
C14_SameNonEmptyVectorEveryShape ==
    (ex.pc = "done" /\ ex.v # <<>>) => ex.out = SomeVec(ex.v)
C14_Witness ==
    /\ ex.pc = "done" /\ ex.shape = "Body_flat" /\ ex.v = V2
    /\ ex.out = SomeVec(V2)

(***************************************************************************)
(* get_siglip and get_vectors: the lazily initialised module globals,      *)
(* called from the threads of one process (SpecLazy).  A thread can be     *)
(* switched out between any two statements, and between the return of the  *)
(* constructor and the store to the global.                                *)
(***************************************************************************)
Threads == {"t1", "t2"}
Getters == {"siglip", "vectors"}
\* None
NoInstance == [n |-> 0, kind |-> "none"]
\* how a constructor call can end: SiglipService(...) returns or raises;
\* S3VectorStore(...) returns, or raises and VectorStore(...) returns or raises
BuildOutcomes(fn) ==
    IF fn = "siglip" THEN {"SiglipService", "raise"}
    ELSE {"S3VectorStore", "VectorStore", "raise"}
IdleThread == [pc |-> "idle", fn |-> "none", tmp |-> NoInstance, got |-> NoInstance]

InitLazy ==
    /\ mode = "legacy"
    /\ S3Start /\ OSStart /\ PollStart
    /\ ex = <<>> /\ rr = <<>> /\ owner = <<>> /\ LoopStart
    /\ lazy = [global |-> [fn \in Getters |-> NoInstance],
               built |-> [fn \in Getters |-> 0],
               th |-> [t \in Threads |-> IdleThread]]

LazyStep(t, thread, global, built) ==
    /\ lazy' = [global |-> global, built |-> built, th |-> [lazy.th EXCEPT ![t] = thread]]
    /\ UNCHANGED <<s3vars, osvars, pollvars, ex, rr, owner, loopvars>>

\* a request handler calls get_siglip() or get_vectors()
Call(t, fn) ==
    /\ lazy.th[t].pc = "idle"
    /\ LazyStep(t, [IdleThread EXCEPT !.pc = "check", !.fn = fn], lazy.global, lazy.built)

\* if _siglip is None:
CheckNone(t) ==
    LET me == lazy.th[t]
    IN  /\ me.pc = "check"
        /\ LazyStep(t, [me EXCEPT !.pc = IF lazy.global[me.fn] = NoInstance
                                         THEN "build" ELSE "return"],
                    lazy.global, lazy.built)

\* the right-hand side of the assignment: the constructor runs
Build(t, outcome) ==
    LET me == lazy.th[t]
        n == lazy.built[me.fn] + 1
    IN  /\ me.pc = "build"
        /\ outcome \in BuildOutcomes(me.fn)
        /\ IF outcome = "raise"
           THEN LazyStep(t, [me EXCEPT !.pc = "raised"], lazy.global, lazy.built)
           ELSE LazyStep(t, [me EXCEPT !.pc = "assign", !.tmp = [n |-> n, kind |-> outcome]],
                         lazy.global, [lazy.built EXCEPT ![me.fn] = n])

\* _siglip = <the new instance>
Assign(t) ==
    LET me == lazy.th[t]
    IN  /\ me.pc = "assign"
        /\ LazyStep(t, [me EXCEPT !.pc = "return"],
                    [lazy.global EXCEPT ![me.fn] = me.tmp], lazy.built)

\* return _siglip
ReturnGlobal(t) ==
    LET me == lazy.th[t]
    IN  /\ me.pc = "return"
        /\ LazyStep(t, [me EXCEPT !.pc = "done", !.got = lazy.global[me.fn]],
                    lazy.global, lazy.built)

\* the handler has used the client (or failed); the thread takes a new request
Finished(t) ==
    /\ lazy.th[t].pc \in {"done", "raised"}
    /\ LazyStep(t, IdleThread, lazy.global, lazy.built)

NextLazy ==
    \/ \E t \in Threads, fn \in Getters : Call(t, fn)
    \/ \E t \in Threads : CheckNone(t)
    \/ \E t \in Threads, outcome \in {"SiglipService", "S3VectorStore", "VectorStore", "raise"} :
          Build(t, outcome)
    \/ \E t \in Threads : Assign(t)
    \/ \E t \in Threads : ReturnGlobal(t)
    \/ \E t \in Threads : Finished(t)

SpecLazy == InitLazy /\ [][NextLazy]_vars

\* C15: under any interleaving of concurrent get_siglip (get_vectors) calls
\* in one process the client is constructed at most once and every caller
\* receives that same instance.
C15_SingletonConstructedOnce ==
    /\ \A fn \in Getters : lazy.built[fn] <= 1
    /\ \A t \in Threads, u \in Threads :
          (lazy.th[t].pc = "done" /\ lazy.th[u].pc = "done" /\ lazy.th[t].fn = lazy.th[u].fn)
              => lazy.th[t].got = lazy.th[u].got

(***************************************************************************)
(* S3VectorStore called with a namespace argument (SpecNs).  Every method  *)
(* takes namespace: Optional[str] = None; owner remembers, for each stored *)
(* id, the namespace its last successful upsert named, and last.foreign    *)
(* the ids that were stored under another namespace when the call began.   *)
(***************************************************************************)
Namespaces == {"n1", "n2"}
NoOwner == [i \in Ids |-> ""]
Stored(vx, lg, i) == Present(vx, i) \/ Present(lg, i)
Foreign(ns) == {i \in Ids : Stored(vidx, legacy, i) /\ owner[i] # ns}

InitNs ==
    /\ mode \in Modes
    /\ S3Start /\ OSStart /\ PollStart
    /\ ex = <<>> /\ lazy = <<>> /\ rr = <<>> /\ LoopStart
    /\ owner = NoOwner

NsFinish(call, e, newOwner) ==
    /\ last' = [call EXCEPT !.outcome = e.outcome, !.path = e.path, !.calls = e.calls]
    /\ vidx' = e.vidx
    /\ legacy' = e.legacy
    /\ owner' = [i \in Ids |-> IF Stored(e.vidx, e.legacy, i) THEN newOwner[i] ELSE ""]
    /\ UNCHANGED <<mode, osvars, pollvars, ex, lazy, rr, loopvars>>

\* upsert(point_id, vector, payload, namespace=ns)
NsUpsert(ns, id, v, m, vok, sok) ==
    LET e == UpsertEffect(vidx, legacy, id, v, m, vok, sok)
    IN  NsFinish([NoCall EXCEPT !.op = "upsert", !.id = id, !.vec = v, !.meta = m,
                                !.ns = ns, !.foreign = Foreign(ns)],
                 e, IF e.outcome = "ok" THEN [owner EXCEPT ![id] = ns] ELSE owner)

\* delete_ids(ids, namespace=ns)
NsDeleteIds(ns, ids, vfail, sfail) ==
    NsFinish([NoCall EXCEPT !.op = "delete_ids", !.ids = ids, !.ns = ns,
                            !.foreign = Foreign(ns)],
             DeleteIdsEffect(vidx, legacy, ids, vfail, sfail), owner)

\* delete_all(namespace=ns)
NsDeleteAll(ns, lvok, vfail, sfail, lsok, sfail2) ==
    NsFinish([NoCall EXCEPT !.op = "delete_all", !.ns = ns, !.foreign = Foreign(ns)],
             DeleteAllEffect(vidx, legacy, lvok, vfail, sfail, lsok, sfail2), owner)

\* search(query_vector, top_k=k, namespace=ns)
NsSearch(ns, q, k) ==
    /\ \E o \in SearchOutcomes(vidx, legacy, q, k, NoBuilding, NoDate, NoDate) :
          last' = [NoCall EXCEPT !.op = "search", !.q = q, !.k = k, !.ns = ns,
                                 !.foreign = Foreign(ns), !.outcome = o.outcome,
                                 !.path = o.path, !.calls = o.calls,
                                 !.result = o.result]
    /\ UNCHANGED <<mode, vidx, legacy, owner, osvars, pollvars, ex, lazy, rr, loopvars>>

\* the caller takes the result of the call
NsReturn ==
    /\ ~Idle
    /\ last' = NoCall
    /\ UNCHANGED <<mode, vidx, legacy, owner, osvars, pollvars, ex, lazy, rr, loopvars>>

NextNs ==
    \/ /\ Idle
       /\ \E ns \in Namespaces, id \in Ids, p \in Payloads, vok \in BOOLEAN, sok \in BOOLEAN :
              NsUpsert(ns, id, p.vec, p.meta, vok, sok)
    \/ /\ Idle
       /\ \E ns \in Namespaces, ids \in IdLists, vfail \in FirstOrNone, sfail \in FirstOrNone :
              NsDeleteIds(ns, ids, vfail, sfail)
    \/ /\ Idle
       /\ \E ns \in Namespaces, lvok \in BOOLEAN, vfail \in FirstOrNone,
             sfail \in FirstOrNone, lsok \in BOOLEAN, sfail2 \in FirstOrNone :
              NsDeleteAll(ns, lvok, vfail, sfail, lsok, sfail2)
    \/ /\ Idle
       /\ \E ns \in Namespaces, q \in GoodVecs, k \in 1..MaxTopK : NsSearch(ns, q, k)
    \/ NsReturn

SpecNs == InitNs /\ [][NextNs]_vars

\* C17: a record upserted under one namespace is never returned by a search,
\* nor removed by delete_ids or delete_all, issued under another namespace.
C17_NamespacesIsolate ==
    /\ (last.op = "search" /\ last.outcome = "ok")
          => \A j \in 1..Len(last.result) : owner[last.result[j].id] = last.ns
    /\ last.op \in {"delete_ids", "delete_all"}
          => \A i \in last.foreign : Stored(vidx, legacy, i)

(***************************************************************************)
(* UpsertViaS3View.post: single-item ingestion (SpecIngest).  A shot_date  *)
(* of the request is the value sent (kind, text) together with the         *)
(* calendar date it denotes (iso: that date as YYYY-MM-DD, ymd: its        *)
(* YYYYMMDD integer).                                                      *)
(***************************************************************************)
ShotDateInputs ==
    {NoShotDate,
     [kind |-> "str", text |-> Date14, iso |-> Date14, ymd |-> 20240614],
     [kind |-> "str", text |-> Date15, iso |-> Date15, ymd |-> 20240615],
     \* "2024-6-5"
     [kind |-> "str", text |-> <<"2", "0", "2", "4", "-", "6", "-", "5">>,
      iso |-> <<"2", "0", "2", "4", "-", "0", "6", "-", "0", "5">>, ymd |-> 20240605],
     \* "20240615"
     [kind |-> "str", text |-> <<"2", "0", "2", "4", "0", "6", "1", "5">>,
      iso |-> Date15, ymd |-> 20240615],
     \* "15/06/2024"
     [kind |-> "str", text |-> <<"1", "5", "/", "0", "6", "/", "2", "0", "2", "4">>,
      iso |-> Date15, ymd |-> 20240615],
     \* the JSON number 20240615
     [kind |-> "num", text |-> <<>>, iso |-> Date15, ymd |-> 20240615]}

\* what _invoke({"image_url": ...}) gives the view: a vector, or it raises
Embeds == {NoVec, SomeVec(V1), SomeVec(<<1>>)}

\* int(str(shot_date).replace('-', '')) if isinstance(shot_date, str) else 0
PostShotYmd(sd) ==
    IF sd.kind = "str" THEN ParseYmd(sd.text) ELSE [ok |-> TRUE, val |-> 0]

\* a post that writes the record first and computes the embedding afterwards
PostEffectUpsertFirst(vx, lg, id, key, building, sd, emb, vok, sok) ==
    IF id = "" \/ ~key \/ building = NoBuilding \/ sd.kind = "missing"
    THEN Effect(vx, lg, "rejected", "none", <<>>)
    ELSE IF ~PostShotYmd(sd).ok THEN Effect(vx, lg, "raised", "none", <<>>)
    ELSE LET payload == [building |-> building, shot_ymd |-> PostShotYmd(sd).val]
             u == UpsertEffect(vx, lg, id, IF emb.ok THEN emb.vec ELSE V1, payload, vok, sok)
         IN  Effect(u.vidx, u.legacy, IF emb.ok THEN u.outcome ELSE "raised", u.path,
                    u.calls \o <<"_invoke">>)
\* post(request): 400 ("rejected") when a field is missing, an uncaught
\* exception ("raised") or 201 ("ok")
PostEffect(vx, lg, id, key, building, sd, emb, vok, sok) ==
    IF id = "" \/ ~key \/ building = NoBuilding \/ sd.kind = "missing"
    THEN Effect(vx, lg, "rejected", "none", <<>>)
    ELSE IF ~emb.ok THEN Effect(vx, lg, "raised", "none", <<"_invoke">>)
    ELSE IF ~PostShotYmd(sd).ok THEN Effect(vx, lg, "raised", "none", <<"_invoke">>)
    ELSE LET payload == [building |-> building, shot_ymd |-> PostShotYmd(sd).val]
             u == UpsertEffect(vx, lg, id, emb.vec, payload, vok, sok)
         IN  Effect(u.vidx, u.legacy, u.outcome, u.path, <<"_invoke">> \o u.calls)

InitIngest ==
    /\ mode \in Modes
    /\ S3Start /\ OSStart /\ PollStart /\ AuxStart

Post(id, key, building, sd, emb, vok, sok) ==
    Finish([NoCall EXCEPT !.op = "post", !.id = id, !.b = building, !.date = sd,
                          !.vec = emb.vec],
           PostEffect(vidx, legacy, id, key, building, sd, emb, vok, sok))

NextIngest ==
    \/ /\ Idle
       /\ \E id \in Ids \cup {""}, key \in BOOLEAN, building \in BuildingFilters,
             sd \in ShotDateInputs, emb \in Embeds, vok \in BOOLEAN, sok \in BOOLEAN :
              Post(id, key, building, sd, emb, vok, sok)
    \/ /\ Idle
       /\ \E df \in DateToFilters, dt \in DateToFilters :
              Search(V1, MaxTopK, NoBuilding, df, dt)
    \/ Return

SpecIngest == InitIngest /\ [][NextIngest]_vars

\* C18: for every accepted ingestion the shot_ymd stored with the vector is
\* the YYYYMMDD encoding of the given shot_date, so that the inclusive date
\* filters select the record for the dates that contain shot_date.
C18_StoredShotYmd ==
    (last.op = "post" /\ last.outcome = "ok")
        => LET store == IF last.path = "vector" THEN vidx ELSE legacy
               stored == RecOf(store, last.id).shot_ymd
           IN  /\ stored = last.date.ymd
               /\ DateKeeps(stored, last.date.iso, last.date.iso)

\* C38: in a post the embedding is computed before the store is touched, the
\* store is written at most once and only under the id of the request, and a
\* failure of the embedding leaves the store as it was.
C38_StoreCalls(calls) == {j \in 1..Len(calls) : calls[j] \in {"put_vectors", "put_object"}}
C38_PostStep ==
    LET sc == C38_StoreCalls(last'.calls)
    IN  /\ sc # {} => last'.calls[1] = "_invoke"
        /\ \A j \in sc : j > 1
        /\ Cardinality({j \in sc : last'.calls[j] = "put_vectors"}) <= 1
        /\ Cardinality({j \in sc : last'.calls[j] = "put_object"}) <= 1
        /\ \A i \in Ids : (vidx'[i] # vidx[i] \/ legacy'[i] # legacy[i]) => i = last'.id
        /\ Cardinality({i \in Ids : vidx'[i] # vidx[i]})
              + Cardinality({i \in Ids : legacy'[i] # legacy[i]}) <= 1
        /\ (last'.calls = <<"_invoke">>) => (vidx' = vidx /\ legacy' = legacy)
C38_EmbedBeforeSingleUpsert ==
    [][(last.op = "none" /\ last'.op = "post") => C38_PostStep]_vars
\* a post whose embedding failed after an earlier post had stored a record
C38_Witness ==
    /\ last.op = "post" /\ last.outcome = "raised" /\ last.calls = <<"_invoke">>
    /\ last.vec = <<>>
    /\ \E i \in Ids : Present(vidx, i) \/ Present(legacy, i)

(***************************************************************************)
(* rerank_with_metadata_boost applied to the rows of one search            *)
(* (SpecRerank).                                                           *)
(***************************************************************************)
RatAdd(x, y) == Rat(x.n * y.d + y.n * x.d, x.d * y.d)
\* 0.02
Boost == Rat(1, 50)
\* scores 0.50, 0.51, 0.52
RerankScores == {Rat(1, 2), Rat(51, 100), Rat(13, 25)}
RerankIds == <<"a", "b", "c">>
\* the rows search hands over: best score first, one row per id
RerankInputs ==
    LET rows(n) == [1..n -> RerankScores \X Buildings]
        asRows(f) == [j \in DOMAIN f |->
                         [id |-> RerankIds[j], score |-> f[j][1], building |-> f[j][2]]]
    IN  {r \in {asRows(f) : f \in UNION {rows(n) : n \in 0..Len(RerankIds)}} :
            NonIncreasing(r)}

\* a score that ignores the requested building
BoostedScoreNoBoost(r, building) == r.score
\* score = r.get('score', 0.0); if building and r.get('building') == building:
\* score += 0.02
BoostedScore(r, building) ==
    IF building # NoBuilding /\ r.building = building THEN RatAdd(r.score, Boost)
    ELSE r.score

\* a re-rank that hands the rows back in the order it got them
RerankInputOrder(results, building) == results
\* rerank_with_metadata_boost(results, building)
Rerank(results, building) ==
    IF results = <<>> THEN results
    ELSE LET boosted == [j \in 1..Len(results) |->
                            [score |-> BoostedScore(results[j], building), r |-> results[j]]]
             sorted == SortDescUpTo(boosted, Len(boosted))
         IN  [j \in 1..Len(sorted) |-> sorted[j].r]

InitRerank ==
    /\ mode = "legacy"
    /\ S3Start /\ OSStart /\ PollStart
    /\ ex = <<>> /\ lazy = <<>> /\ owner = <<>> /\ LoopStart
    /\ \E results \in RerankInputs, building \in BuildingFilters :
          rr = [pc |-> "input", results |-> results, building |-> building, out |-> <<>>]

RerankStep ==
    /\ rr.pc = "input"
    /\ rr' = [rr EXCEPT !.pc = "done", !.out = Rerank(rr.results, rr.building)]
    /\ UNCHANGED <<s3vars, osvars, pollvars, ex, lazy, owner, loopvars>>

NextRerank == RerankStep

SpecRerank == InitRerank /\ [][NextRerank]_vars

\* C19: of two results with equal base score, one whose building is the
\* requested building and one whose building is not, the matching one comes
\* before the other after the re-rank.
C19_PosIn(rows, id) == CHOOSE j \in 1..Len(rows) : rows[j].id = id
C19_MatchingFirstOnTie ==
    rr.pc = "done"
        => \A i \in 1..Len(rr.results), j \in 1..Len(rr.results) :
               (/\ rr.results[i].score = rr.results[j].score
                /\ rr.results[i].building = rr.building
                /\ rr.results[j].building # rr.building)
                   => C19_PosIn(rr.out, rr.results[i].id) < C19_PosIn(rr.out, rr.results[j].id)
\* the non-matching row came first and the matching one overtakes it
C19_Witness ==
    /\ rr.pc = "done" /\ rr.building = "B1"
    /\ Len(rr.results) = 2
    /\ rr.results[1].score = rr.results[2].score
    /\ rr.results[1].building = "B2" /\ rr.results[2].building = "B1"
    /\ rr.out[1].id = "b" /\ rr.out[2].id = "a"

\* C36: the output of the re-rank is a permutation of its input, ordered by
\* non-increasing adjusted score, the adjusted score being the base score plus
\* 0.02 when a building is requested and the row's building equals it.
C36_Adjusted(r) ==
    IF rr.building # NoBuilding /\ r.building = rr.building
    THEN Rat(r.score.n * 50 + r.score.d, r.score.d * 50)
    ELSE r.score
C36_PermutationByAdjustedScore ==
    rr.pc = "done"
        => /\ Len(rr.out) = Len(rr.results)
           /\ \A i \in 1..Len(rr.results) :
                  Cardinality({j \in 1..Len(rr.out) : rr.out[j] = rr.results[i]}) = 1
           /\ \A j \in 1..(Len(rr.out) - 1) :
                  RatLE(C36_Adjusted(rr.out[j + 1]), C36_Adjusted(rr.out[j]))
\* three rows of which the last, matching one moves to the front
C36_Witness ==
    /\ rr.pc = "done" /\ rr.building = "B1"
    /\ Len(rr.results) = 3
    /\ rr.results[1].score = Rat(51, 100) /\ rr.results[1].building = "B2"
    /\ rr.results[3].score = Rat(1, 2) /\ rr.results[3].building = "B1"
    /\ rr.results[2].building = "B2"
    /\ rr.out[1] = rr.results[3] /\ rr.out[2] = rr.results[1]

(***************************************************************************)
(* The legacy scan of S3VectorStore.search over what a listing of the      *)
(* collection prefix holds (SpecScan).  An object under the prefix is the  *)
(* JSON text of a record, the JSON text of a value that is not an object   *)
(* (a list, a string, null), or text that is not JSON.  list_objects_v2    *)
(* hands out the keys in pages of `page` keys.                             *)
(***************************************************************************)
\* at most MaxObjects objects under the prefix, pages of 1..MaxPage keys
MaxObjects == 3
MaxPage == 2
ScanKinds == {"near", "far", "other", "short", "garbage", "nondict"}
\* the object with key number j
ScanObject(kind, j) ==
    LET doc(v, b, ymd) ==
            [json |-> "dict", id |-> j, embedding |-> v, building |-> b, shot_ymd |-> ymd]
    IN  CASE kind = "near" -> doc(V1, "B1", 20240614)
          [] kind = "far" -> doc(V2, "B1", 20240615)
          [] kind = "other" -> doc(V1, "B2", 20240615)
          [] kind = "short" -> doc(<<1>>, "B1", 20240615)
          [] OTHER -> [json |-> kind, id |-> j, embedding |-> <<>>, building |-> "",
                       shot_ymd |-> 0]

\* lines 403-429 for one object whose get_object succeeded: the object is
\* skipped, a row is appended to best, or an exception leaves search
ScanRow(obj, q, b, df, dt) ==
    IF obj.json = "garbage" THEN [t |-> "skip"]
    ELSE IF obj.json # "dict" THEN [t |-> "raise"]
    ELSE IF b # NoBuilding /\ obj.building # b THEN [t |-> "skip"]
    ELSE IF ~DateKeeps(obj.shot_ymd, df, dt) THEN [t |-> "skip"]
    ELSE IF Len(obj.embedding) # Dim THEN [t |-> "skip"]
    ELSE [t |-> "row",
          row |-> [id |-> obj.id, score |-> Cosine(q, obj.embedding),
                   building |-> obj.building, shot_ymd |-> obj.shot_ymd]]

\* one S3 call of the scan; the fail-th call raises (0: none does)
ScanCall(st, name, fail) ==
    [st EXCEPT !.calls = Append(st.calls, name),
               !.outcome = IF Len(st.calls) + 1 = fail THEN "s3 error" ELSE st.outcome]

\* the for loop over the contents of one page, from its j-th object on
RECURSIVE ScanContents(_, _, _, _, _, _, _, _)
ScanContents(st, contents, j, q, b, df, dt, fail) ==
    IF j > Len(contents) THEN st
    ELSE LET got == ScanCall(st, "get_object", fail)
             r == ScanRow(contents[j], q, b, df, dt)
         IN  IF got.outcome # "ok" THEN got
             ELSE IF r.t = "raise" THEN [got EXCEPT !.outcome = "attribute error"]
             ELSE ScanContents(IF r.t = "row"
                               THEN [got EXCEPT !.best = Append(got.best, r.row)]
                               ELSE got,
                               contents, j + 1, q, b, df, dt, fail)

\* the while loop over the listing pages: the page that starts at key `from`
RECURSIVE ScanPages(_, _, _, _, _, _, _, _, _)
ScanPages(st, objs, from, page, q, b, df, dt, fail) ==
    LET res == ScanCall(st, "list_objects_v2", fail)
        contents == SubSeq(objs, from, Min(from + page - 1, Len(objs)))
        isTruncated == from + page - 1 < Len(objs)
        read == ScanContents(res, contents, 1, q, b, df, dt, fail)
    IN  IF res.outcome # "ok" THEN res
        ELSE IF read.outcome # "ok" \/ ~isTruncated THEN read
        ELSE ScanPages(read, objs, from + page, page, q, b, df, dt, fail)

\* lines 395-434
LegacyScan(objs, page, q, k, b, df, dt, fail) ==
    LET st == ScanPages([best |-> <<>>, calls |-> <<>>, outcome |-> "ok"],
                        objs, 1, page, q, b, df, dt, fail)
    IN  [outcome |-> st.outcome, calls |-> st.calls,
         result |-> IF st.outcome = "ok" THEN Slice(SortDesc(st.best), k) ELSE <<>>]

InitScan ==
    /\ mode = "legacy"
    /\ S3Start /\ OSStart /\ PollStart
    /\ ex = <<>> /\ lazy = <<>> /\ rr = <<>> /\ owner = <<>> /\ pb = <<>>
    /\ RestStart
    /\ \E n \in 0..MaxObjects :
       \E kinds \in [1..n -> ScanKinds], page \in 1..MaxPage, k \in 0..MaxTopK,
          b \in BuildingFilters, df \in {NoDate, Date15}, dt \in {NoDate, Date14},
          fail \in 0..2 :
          scan = [pc |-> "input", objs |-> [j \in 1..n |-> ScanObject(kinds[j], j)],
                  page |-> page, q |-> V1, k |-> k, b |-> b, df |-> df, dt |-> dt,
                  fail |-> fail, outcome |-> "ok", calls |-> <<>>, result |-> <<>>]

Scan ==
    LET r == LegacyScan(scan.objs, scan.page, scan.q, scan.k, scan.b, scan.df,
                        scan.dt, scan.fail)
    IN  /\ scan.pc = "input"
        /\ scan' = [scan EXCEPT !.pc = "done", !.outcome = r.outcome,
                                !.calls = r.calls, !.result = r.result]
        /\ UNCHANGED <<s3vars, osvars, pollvars, ex, lazy, rr, owner, pb, restvars>>

NextScan == Scan

SpecScan == InitScan /\ [][NextScan]_vars

\* C27: the legacy scan examines every object under the prefix across all
\* listing pages and, unless an S3 call fails, returns exactly the
\* max(1, top_k) highest-scoring records among those that parse as JSON, pass
\* the building and date filters and hold an embedding of length dim; objects
\* that do not parse or hold an embedding of another length are skipped and
\* do not fail the search.
C27_Qualifies(o) ==
    /\ o.json = "dict"
    /\ (scan.b = NoBuilding \/ o.building = scan.b)
    /\ C8_InRange(o.shot_ymd, scan.df, scan.dt)
    /\ Len(o.embedding) = Dim
C27_TopOfQualifying ==
    LET qual == {j \in 1..Len(scan.objs) : C27_Qualifies(scan.objs[j])}
        ids == RowIds(scan.result)
        score(j) == Cosine(scan.q, scan.objs[j].embedding)
    IN  /\ ids \subseteq qual
        /\ Cardinality(ids) = Len(scan.result)
        /\ Len(scan.result) = Min(Max1(scan.k), Cardinality(qual))
        /\ NonIncreasing(scan.result)
        /\ \A j \in 1..Len(scan.result) : scan.result[j].score = score(scan.result[j].id)
        /\ \A i \in ids, j \in qual \ ids : RatLE(score(j), score(i))
C27_LegacyScanTopK ==
    (scan.pc = "done" /\ scan.outcome # "s3 error")
        => (scan.outcome = "ok" /\ C27_TopOfQualifying)
\* the same, for prefixes that hold JSON objects and text that is not JSON
C27_ScanOfJsonObjects ==
    (/\ scan.pc = "done" /\ scan.outcome # "s3 error"
     /\ \A j \in 1..Len(scan.objs) : scan.objs[j].json # "nondict")
        => (scan.outcome = "ok" /\ C27_TopOfQualifying)

(***************************************************************************)
(* The put_vectors loop of S3VectorStore.upsert_batch on a batch of n      *)
(* records (SpecBatch).  Record j of the batch is written j; bad is the    *)
(* position of a record without values (0: every record is valid); the     *)
(* vfail-th put_vectors call raises (0: none does).                        *)
(***************************************************************************)
\* batches of 0..MaxBatch records
MaxBatch == 401

\* a flush that is never due inside the loop
FlushDueNever(len) == FALSE
\* if len(batch) >= 200: flush()        (len = len(batch))
FlushDue(len) == len >= PutBatchLimit

\* flush(): nothing when the batch is empty, else one put_vectors call that
\* carries the batch, and batch.clear()
Flush(st, batch, vfail) ==
    IF batch = <<>> THEN st
    ELSE [st EXCEPT !.calls = Append(st.calls, batch),
                    !.status = IF Len(st.calls) + 1 = vfail THEN "failed" ELSE st.status]

\* for it in items: validate, append, flush when due; then the last flush.
\* One step is the run of the loop from record j, where the batch is empty,
\* up to the next flush: the records j..e are appended one by one, e being
\* the first position at which the flush is due.
RECURSIVE PutLoop(_, _, _, _, _)
PutLoop(st, items, j, bad, vfail) ==
    LET n == Len(items)
        due == {e \in j..n : FlushDue(e - j + 1)}
        e == IF due = {} THEN n ELSE CHOOSE x \in due : \A y \in due : x <= y
        flushed == Flush(st, SubSeq(items, j, e), vfail)
    IN  IF st.status # "running" THEN st
        ELSE IF bad \in j..e THEN [st EXCEPT !.status = "invalid"]
        ELSE IF due = {}
        THEN IF flushed.status = "running" THEN [flushed EXCEPT !.status = "done"]
             ELSE flushed
        ELSE PutLoop(flushed, items, e + 1, bad, vfail)

\* the put_vectors calls of upsert_batch(items), in order, and how the loop ended
PutCalls(items, bad, vfail) ==
    IF items = <<>> THEN [calls |-> <<>>, status |-> "done"]
    ELSE PutLoop([calls |-> <<>>, status |-> "running"], items, 1, bad, vfail)

InitBatch ==
    /\ mode = "strict"
    /\ S3Start /\ OSStart /\ PollStart
    /\ ex = <<>> /\ lazy = <<>> /\ rr = <<>> /\ owner = <<>> /\ scan = <<>>
    /\ RestStart
    /\ \E n \in 0..MaxBatch, bad \in {0, 1, PutBatchLimit + 1}, vfail \in 0..3 :
          pb = [pc |-> "input", items |-> [j \in 1..n |-> j], bad |-> bad,
                vfail |-> vfail, calls |-> <<>>, status |-> "running"]

PutBatch ==
    LET r == PutCalls(pb.items, pb.bad, pb.vfail)
    IN  /\ pb.pc = "input"
        /\ pb' = [pb EXCEPT !.pc = "done", !.calls = r.calls, !.status = r.status]
        /\ UNCHANGED <<s3vars, osvars, pollvars, ex, lazy, rr, owner, scan, restvars>>

NextBatch == PutBatch

SpecBatch == InitBatch /\ [][NextBatch]_vars

\* C30: every put_vectors call of upsert_batch carries between 1 and 200
\* vectors; for a batch of valid records that is stored without a failed call
\* the calls, taken in order, carry exactly the input records in input order,
\* each record once; when the loop stops early the calls carry a prefix of
\* the input.
RECURSIVE C30_Concat(_, _)
C30_Concat(chunks, n) == IF n = 0 THEN <<>> ELSE C30_Concat(chunks, n - 1) \o chunks[n]
C30_BatchedPut ==
    pb.pc = "done"
        => LET sent == C30_Concat(pb.calls, Len(pb.calls))
           IN  /\ \A c \in 1..Len(pb.calls) :
                      Len(pb.calls[c]) >= 1 /\ Len(pb.calls[c]) <= 200
               /\ Len(sent) <= Len(pb.items) /\ sent = SubSeq(pb.items, 1, Len(sent))
               /\ pb.status = "done" => sent = pb.items
               /\ (pb.bad \notin 1..Len(pb.items) /\ pb.vfail \notin 1..Len(pb.calls))
                     => pb.status = "done"
\* 401 valid records: two calls of 200 and one of 1
C30_Witness ==
    /\ pb.pc = "done" /\ pb.status = "done"
    /\ Len(pb.items) = 401
    /\ Len(pb.calls) = 3
    /\ Len(pb.calls[1]) = 200 /\ Len(pb.calls[2]) = 200 /\ pb.calls[3] = <<401>>

(***************************************************************************)
(* _cosine applied to one pair of vectors, in both orders (SpecCosine).    *)
(***************************************************************************)
CosVecs ==
    {<<>>, <<0>>, <<1>>, <<0, 0>>, V1, V2, <<0 - 3, 4>>, <<0, 0, 0>>, <<3, 4, 0>>,
     <<0, 0 - 5>>}

InitCosine ==
    /\ mode = "legacy"
    /\ S3Start /\ OSStart /\ PollStart
    /\ ex = <<>> /\ lazy = <<>> /\ rr = <<>> /\ owner = <<>> /\ scan = <<>> /\ pb = <<>>
    /\ dl = <<>> /\ re = <<>> /\ nq = <<>> /\ sv = <<>>
    /\ \E a \in CosVecs, b \in CosVecs :
          cs = [pc |-> "input", a |-> a, b |-> b, ab |-> RatOne, ba |-> RatOne]

CosineStep ==
    /\ cs.pc = "input"
    /\ cs' = [cs EXCEPT !.pc = "done", !.ab = Cosine(cs.a, cs.b), !.ba = Cosine(cs.b, cs.a)]
    /\ UNCHANGED <<s3vars, osvars, pollvars, ex, lazy, rr, owner, scan, pb, dl, re, nq, sv>>

NextCosine == CosineStep

SpecCosine == InitCosine /\ [][NextCosine]_vars

\* C40: _cosine returns -1 whenever either vector is empty, the lengths
\* differ or either vector has zero norm, and for those inputs it returns the
\* same for (a, b) and (b, a).
C40_ZeroNorm(v) == \A j \in 1..Len(v) : v[j] = 0
C40_Sentinel(a, b) ==
    a = <<>> \/ b = <<>> \/ Len(a) # Len(b) \/ C40_ZeroNorm(a) \/ C40_ZeroNorm(b)
C40_CosineSentinel ==
    (cs.pc = "done" /\ C40_Sentinel(cs.a, cs.b))
        => (cs.ab = Rat(0 - 1, 1) /\ cs.ba = cs.ab)
\* a zero vector against a non-zero vector of the same length
C40_Witness ==
    /\ cs.pc = "done" /\ cs.a = <<0, 0>> /\ cs.b = V2
    /\ cs.ab = Rat(0 - 1, 1) /\ cs.ba = Rat(0 - 1, 1)

(***************************************************************************)
(* delete_ids and delete_all of S3VectorStore, one backend call per step   *)
(* (SpecDelete).  A listing is the sequence of pages the backend hands     *)
(* out: every page but the last comes with a continuation token.  dl.calls *)
(* is the log of the backend calls: the function that made the call, the   *)
(* operation, the keys sent (a delete) or received (a listing), and        *)
(* whether the call succeeded.                                             *)
(***************************************************************************)
\* ids[i:] in place of ids[i:i+size]
ChunkOfRest(ids, i, size) == SubSeq(ids, i + 1, Len(ids))
\* ids[i:i+size]
ChunkOf(ids, i, size) == SubSeq(ids, i + 1, Min(i + size, Len(ids)))

\* a paging loop that stops after its first page
MorePagesNever(token) == FALSE
\* if not next_token: break  /  if not res.get('IsTruncated'): break
MorePages(token) == token # 0

KeysUpTo(n) == [j \in 1..n |-> j]
PagesOf(keys, pg) ==
    IF keys = <<>> THEN << <<>> >>
    ELSE [p \in 1..NumChunks(Len(keys), pg) |->
             SubSeq(keys, (p - 1) * pg + 1, Min(p * pg, Len(keys)))]
\* the listings: up to MaxObjects keys on pages of up to MaxPage keys, one
\* listing of two full pages of DeleteVectorsLimit keys and one key more,
\* and each of these followed by an empty last page
Listings ==
    LET base == {PagesOf(KeysUpTo(n), pg) : n \in 0..MaxObjects, pg \in 1..MaxPage}
                \cup {PagesOf(KeysUpTo(2 * DeleteVectorsLimit + 1), DeleteVectorsLimit)}
    IN  base \cup {pages \o << <<>> >> : pages \in base}
\* the id lists handed to delete_ids
DeleteArgs ==
    {KeysUpTo(n) : n \in (0..MaxObjects)
                         \cup {DeleteVectorsLimit, DeleteVectorsLimit + 1,
                               DeleteObjectsLimit, DeleteObjectsLimit + 1}}
    \cup {<<1, 1>>}

\* the response to the listing call for page p
ListPage(pages, p) == [keys |-> pages[p], next |-> IF p < Len(pages) THEN p + 1 ELSE 0]
BackendCall(by, name, keys, ok) == [by |-> by, name |-> name, keys |-> keys, ok |-> ok]

DeleteStart(op, ids, vpages, spages) ==
    [pc |-> "start", op |-> op, ids |-> ids, keys |-> <<>>, objs |-> <<>>, i |-> 0,
     page |-> 1, next |-> 0, vpages |-> vpages, spages |-> spages, calls |-> <<>>,
     inAll |-> FALSE]

InitDelete ==
    /\ mode \in Modes
    /\ vidx = EmptyStore /\ legacy = EmptyStore /\ last = NoCall
    /\ OSStart /\ PollStart
    /\ ex = <<>> /\ lazy = <<>> /\ rr = <<>> /\ owner = <<>> /\ scan = <<>> /\ pb = <<>>
    /\ re = <<>> /\ nq = <<>> /\ sv = <<>> /\ cs = <<>>
    /\ \/ \E ids \in DeleteArgs : dl = DeleteStart("delete_ids", ids, << <<>> >>, << <<>> >>)
       \/ \E vpages \in Listings, spages \in Listings :
             dl = DeleteStart("delete_all",
                              <<>>,
                              IF mode = "legacy" THEN << <<>> >> ELSE vpages,
                              IF mode = "strict" THEN << <<>> >> ELSE spages)

deleteOthers ==
    <<s3vars, osvars, pollvars, ex, lazy, rr, owner, scan, pb, re, nq, sv, cs>>

\* the entry of delete_ids (178-181, 191, 203) and of delete_all (211, 237, 263)
DeleteBegin ==
    /\ dl.pc = "start"
    /\ dl' = [dl EXCEPT !.pc =
                 IF dl.op = "delete_ids"
                 THEN IF dl.ids = <<>> THEN "done"
                      ELSE IF mode = "legacy" THEN "delete_objects" ELSE "delete_vectors"
                 ELSE IF mode = "legacy" THEN "list_objects" ELSE "list_vectors"]
    /\ UNCHANGED deleteOthers

\* one delete_vectors call of delete_ids
DeleteVectors(ok) ==
    /\ dl.pc = "delete_vectors"
    /\ LET chunk == ChunkOf(dl.ids, dl.i, DeleteVectorsLimit)
           logged == Append(dl.calls, BackendCall("delete_ids", "delete_vectors", chunk, ok))
       IN  dl' = IF ~ok
                 THEN IF mode = "strict" THEN [dl EXCEPT !.pc = "raised", !.calls = logged]
                      ELSE [dl EXCEPT !.pc = "delete_objects", !.i = 0, !.calls = logged]
                 ELSE IF dl.i + DeleteVectorsLimit < Len(dl.ids)
                 THEN [dl EXCEPT !.i = dl.i + DeleteVectorsLimit, !.calls = logged]
                 ELSE [dl EXCEPT !.pc = "done", !.calls = logged]
    /\ UNCHANGED deleteOthers

\* one delete_objects call of delete_ids; inside delete_all its exception is
\* caught and the sweep takes over
DeleteObjects(ok) ==
    /\ dl.pc = "delete_objects"
    /\ LET chunk == ChunkOf(dl.ids, dl.i, DeleteObjectsLimit)
           logged == Append(dl.calls, BackendCall("delete_ids", "delete_objects", chunk, ok))
       IN  dl' = IF ~ok
                 THEN IF dl.inAll
                      THEN [dl EXCEPT !.pc = "list_objects", !.page = 1, !.calls = logged]
                      ELSE [dl EXCEPT !.pc = "raised", !.calls = logged]
                 ELSE IF dl.i + DeleteObjectsLimit < Len(dl.ids)
                 THEN [dl EXCEPT !.i = dl.i + DeleteObjectsLimit, !.calls = logged]
                 ELSE [dl EXCEPT !.pc = "done", !.calls = logged]
    /\ UNCHANGED deleteOthers

\* one list_vectors call of delete_all, then delete_ids(keys) after the last
ListVectors(ok) ==
    /\ dl.pc = "list_vectors"
    /\ LET resp == ListPage(dl.vpages, dl.page)
           logged == Append(dl.calls,
                            BackendCall("delete_all", "list_vectors",
                                        IF ok THEN resp.keys ELSE <<>>, ok))
           keys == dl.keys \o resp.keys
       IN  dl' = IF ~ok
                 THEN IF mode = "strict" THEN [dl EXCEPT !.pc = "raised", !.calls = logged]
                      ELSE [dl EXCEPT !.pc = "list_objects", !.page = 1, !.calls = logged]
                 ELSE IF MorePages(resp.next)
                 THEN [dl EXCEPT !.keys = keys, !.page = resp.next, !.calls = logged]
                 ELSE IF keys = <<>>
                 THEN [dl EXCEPT !.pc = "done", !.keys = keys, !.calls = logged]
                 ELSE [dl EXCEPT !.pc = "delete_vectors", !.keys = keys, !.ids = keys,
                                 !.i = 0, !.inAll = TRUE, !.calls = logged]
    /\ UNCHANGED deleteOthers

\* one list_objects_v2 call of the sweep of delete_all
ListObjects(out) ==
    /\ dl.pc = "list_objects"
    /\ LET resp == ListPage(dl.spages, dl.page)
           logged == Append(dl.calls,
                            BackendCall("delete_all", "list_objects_v2",
                                        IF out = "ok" THEN resp.keys ELSE <<>>, out = "ok"))
       IN  dl' = CASE out = "no_such_bucket" -> [dl EXCEPT !.pc = "done", !.calls = logged]
                   [] out = "error" -> [dl EXCEPT !.pc = "raised", !.calls = logged]
                   [] out = "ok" ->
                        IF resp.keys # <<>>
                        THEN [dl EXCEPT !.pc = "sweep", !.objs = resp.keys, !.i = 0,
                                        !.next = resp.next, !.calls = logged]
                        ELSE IF MorePages(resp.next)
                        THEN [dl EXCEPT !.page = resp.next, !.calls = logged]
                        ELSE [dl EXCEPT !.pc = "done", !.calls = logged]
    /\ UNCHANGED deleteOthers

\* one delete_objects call of the sweep, then the next page if there is one
SweepDelete(ok) ==
    /\ dl.pc = "sweep"
    /\ LET chunk == ChunkOf(dl.objs, dl.i, DeleteObjectsLimit)
           logged == Append(dl.calls, BackendCall("delete_all", "delete_objects", chunk, ok))
       IN  dl' = IF ~ok THEN [dl EXCEPT !.pc = "raised", !.calls = logged]
                 ELSE IF dl.i + DeleteObjectsLimit < Len(dl.objs)
                 THEN [dl EXCEPT !.i = dl.i + DeleteObjectsLimit, !.calls = logged]
                 ELSE IF MorePages(dl.next)
                 THEN [dl EXCEPT !.pc = "list_objects", !.page = dl.next, !.calls = logged]
                 ELSE [dl EXCEPT !.pc = "done", !.calls = logged]
    /\ UNCHANGED deleteOthers

NextDelete ==
    \/ DeleteBegin
    \/ \E ok \in BOOLEAN : DeleteVectors(ok)
    \/ \E ok \in BOOLEAN : DeleteObjects(ok)
    \/ \E ok \in BOOLEAN : ListVectors(ok)
    \/ \E out \in {"ok", "no_such_bucket", "error"} : ListObjects(out)
    \/ \E ok \in BOOLEAN : SweepDelete(ok)

SpecDelete == InitDelete /\ [][NextDelete]_vars
\* every call returns, so a call that is due is made
SpecDeleteFair == SpecDelete /\ WF_vars(NextDelete)

\* the keys of the calls `name` made by `by`, in call order
RECURSIVE KeysOfCalls(_, _, _)
KeysOfCalls(calls, by, name) ==
    IF calls = <<>> THEN <<>>
    ELSE (IF Head(calls).by = by /\ Head(calls).name = name THEN Head(calls).keys ELSE <<>>)
         \o KeysOfCalls(Tail(calls), by, name)

\* C31: every delete_objects call carries at most 1000 objects, every
\* delete_vectors call at most 500 keys, and when a delete has returned the
\* chunks of the loop that finished it are, in call order, exactly the ids
\* to delete, each once.
C31_Covers(by, want) ==
    LET dv == KeysOfCalls(dl.calls, by, "delete_vectors")
        do == KeysOfCalls(dl.calls, by, "delete_objects")
    IN  (dv = want /\ do = <<>>) \/ do = want
C31_ChunkedDeletes ==
    /\ \A j \in 1..Len(dl.calls) :
          /\ dl.calls[j].name = "delete_objects"
                => Len(dl.calls[j].keys) \in 1..DeleteObjectsLimit
          /\ dl.calls[j].name = "delete_vectors"
                => Len(dl.calls[j].keys) \in 1..DeleteVectorsLimit
    /\ (dl.pc = "done" /\ dl.op = "delete_ids") => C31_Covers("delete_ids", dl.ids)
    /\ (dl.pc = "done" /\ dl.op = "delete_all")
          => IF \E j \in 1..Len(dl.calls) : dl.calls[j].name = "list_objects_v2"
             THEN KeysOfCalls(dl.calls, "delete_all", "delete_objects")
                     = KeysOfCalls(dl.calls, "delete_all", "list_objects_v2")
             ELSE C31_Covers("delete_ids", KeysOfCalls(dl.calls, "delete_all", "list_vectors"))
\* 1001 ids in fallback mode: the third delete_vectors call fails and two
\* delete_objects calls of 1000 and 1 objects follow
C31_Witness ==
    /\ dl.pc = "done" /\ dl.op = "delete_ids" /\ mode = "fallback"
    /\ Len(dl.ids) = DeleteObjectsLimit + 1
    /\ Len(dl.calls) = 5
    /\ dl.calls[3].name = "delete_vectors" /\ ~dl.calls[3].ok
    /\ Len(dl.calls[4].keys) = DeleteObjectsLimit /\ Len(dl.calls[5].keys) = 1

\* C32: delete_all over any finite listing stops, and when no call failed it
\* has asked for every page of the listing and has issued a delete for every
\* key on any of the pages.
C32_AllOk == \A j \in 1..Len(dl.calls) : dl.calls[j].ok
C32_Count(name) == Cardinality({j \in 1..Len(dl.calls) : dl.calls[j].name = name})
C32_Keys(pages) == UNION {Range(pages[p]) : p \in 1..Len(pages)}
C32_Deleted(name) ==
    UNION {Range(dl.calls[j].keys) : j \in {h \in 1..Len(dl.calls) : dl.calls[h].name = name}}
C32_Complete ==
    (dl.pc = "done" /\ dl.op = "delete_all" /\ C32_AllOk)
        => IF mode = "legacy"
           THEN /\ C32_Count("list_objects_v2") = Len(dl.spages)
                /\ C32_Deleted("delete_objects") = C32_Keys(dl.spages)
           ELSE /\ C32_Count("list_vectors") = Len(dl.vpages)
                /\ C32_Deleted("delete_vectors") = C32_Keys(dl.vpages)
C32_DeleteAllTerminates ==
    /\ []C32_Complete
    /\ <>(dl.pc \in {"done", "raised"})
\* three pages of vectors, the last of them empty, all listed and deleted
C32_Witness ==
    /\ dl.pc = "done" /\ dl.op = "delete_all" /\ mode = "strict" /\ C32_AllOk
    /\ Len(dl.vpages) = 3 /\ dl.vpages[3] = <<>>
    /\ C32_Count("list_vectors") = 3
    /\ C32_Deleted("delete_vectors") = {1, 2}

(***************************************************************************)
(* The reembed_all command (SpecReembed).  re.items is the table in        *)
(* created_at order, each item with its id and whether its file exists;    *)
(* re.index is what the vector index holds: "old" stands for the vectors   *)
(* of earlier runs.  re.batches logs the lists handed to _process_batch,   *)
(* re.calls the calls made on the embedding client and the store.          *)
(***************************************************************************)
\* the table holds 0..MaxItems items
MaxItems == 3
\* --batch ranges over 1..MaxBatchSize
MaxBatchSize == 2

ReItems ==
    UNION {{[j \in 1..n |-> [id |-> j, exists |-> f[j]]] : f \in [1..n -> BOOLEAN]} :
              n \in 0..MaxItems}

\* image_embed_batch(paths): raise RuntimeError('Local batch embedding
\* disabled; use SageMaker async via image_url')
ImageEmbedBatch(paths) == [ok |-> FALSE, vectors |-> <<>>]

\* _process_batch(items, paths, sig, vec, namespace); uok: upsert_batch succeeds
ProcessBatch(st, items, uok) ==
    LET handed == [st EXCEPT !.batches = Append(st.batches, items),
                             !.calls = Append(st.calls, "image_embed_batch")]
        emb == ImageEmbedBatch(items)
    IN  IF ~emb.ok THEN [handed EXCEPT !.pc = "raised", !.error = "image_embed_batch"]
        ELSE IF ~uok
        THEN [handed EXCEPT !.pc = "raised", !.error = "upsert_batch",
                            !.calls = Append(handed.calls, "upsert_batch")]
        ELSE [handed EXCEPT !.calls = Append(handed.calls, "upsert_batch"),
                            !.index = handed.index \cup Range(items),
                            !.count = handed.count + Len(items)]

InitReembed ==
    /\ mode = "legacy"
    /\ S3Start /\ OSStart /\ PollStart
    /\ ex = <<>> /\ lazy = <<>> /\ rr = <<>> /\ owner = <<>> /\ scan = <<>> /\ pb = <<>>
    /\ dl = <<>> /\ nq = <<>> /\ sv = <<>> /\ cs = <<>>
    /\ \E items \in ReItems, batch \in 1..MaxBatchSize, reset \in BOOLEAN :
          re = [pc |-> "start", items |-> items, batch |-> batch, reset |-> reset,
                pos |-> 1, buf |-> <<>>, count |-> 0, batches |-> <<>>, calls |-> <<>>,
                index |-> {"old"}, error |-> "none"]

reembedOthers ==
    <<s3vars, osvars, pollvars, ex, lazy, rr, owner, scan, pb, dl, nq, sv, cs>>

\* handle up to the loop: total == 0 returns, then --reset calls delete_all
ReBegin(dok) ==
    /\ re.pc = "start"
    /\ re' = IF Len(re.items) = 0 THEN [re EXCEPT !.pc = "no_images"]
             ELSE IF ~re.reset THEN [re EXCEPT !.pc = "loop"]
             ELSE IF dok
             THEN [re EXCEPT !.pc = "loop", !.index = {}, !.calls = Append(re.calls, "delete_all")]
             ELSE [re EXCEPT !.pc = "raised", !.error = "delete_all",
                             !.calls = Append(re.calls, "delete_all")]
    /\ UNCHANGED reembedOthers

\* one pass of for item in qs.iterator()
ReItem(uok) ==
    /\ re.pc = "loop" /\ re.pos <= Len(re.items)
    /\ LET item == re.items[re.pos]
           moved == [re EXCEPT !.pos = re.pos + 1]
           buf == Append(re.buf, item.id)
       IN  re' = IF ~item.exists THEN moved
                 ELSE IF Len(buf) >= re.batch
                 THEN LET p == ProcessBatch(moved, buf, uok)
                      IN  IF p.pc = "raised" THEN [p EXCEPT !.buf = buf]
                          ELSE [p EXCEPT !.buf = <<>>]
                 ELSE [moved EXCEPT !.buf = buf]
    /\ UNCHANGED reembedOthers

\* after the loop: the last, shorter batch and the completion message
ReFinish(uok) ==
    /\ re.pc = "loop" /\ re.pos > Len(re.items)
    /\ re' = IF re.buf = <<>> THEN [re EXCEPT !.pc = "complete"]
             ELSE LET p == ProcessBatch(re, re.buf, uok)
                  IN  IF p.pc = "raised" THEN p ELSE [p EXCEPT !.pc = "complete"]
    /\ UNCHANGED reembedOthers

NextReembed ==
    \/ \E dok \in BOOLEAN : ReBegin(dok)
    \/ \E uok \in BOOLEAN : ReItem(uok)
    \/ \E uok \in BOOLEAN : ReFinish(uok)

SpecReembed == InitReembed /\ [][NextReembed]_vars

ReEnded == re.pc \in {"no_images", "complete", "raised"}
\* the ids of the items whose files exist, in created_at order
RECURSIVE ReExisting(_)
ReExisting(items) ==
    IF items = <<>> THEN <<>>
    ELSE (IF Head(items).exists THEN <<Head(items).id>> ELSE <<>>) \o ReExisting(Tail(items))
RECURSIVE ReConcat(_)
ReConcat(batches) ==
    IF batches = <<>> THEN <<>> ELSE Head(batches) \o ReConcat(Tail(batches))
ReCallsOf(name) == {j \in 1..Len(re.calls) : re.calls[j] = name}

\* C33: when a run in which the store did not fail has ended, the batches
\* handed to _process_batch are, concatenated in call order, the created_at
\* ordered items whose files exist, each batch holds 1..batch_size items, and
\* with --reset delete_all was called exactly once, before any upsert_batch.
C33_OrderedBatches ==
    (ReEnded /\ re.error \notin {"delete_all", "upsert_batch"})
        => /\ ReConcat(re.batches) = ReExisting(re.items)
           /\ \A j \in 1..Len(re.batches) : Len(re.batches[j]) \in 1..re.batch
           /\ re.reset
                 => /\ Cardinality(ReCallsOf("delete_all")) = 1
                    /\ \A d \in ReCallsOf("delete_all"), u \in ReCallsOf("upsert_batch") : d < u
\* the part of C33 that does not depend on _process_batch returning: the
\* batches handed over are a prefix of the existing items in created_at
\* order, each of 1..batch_size items, and delete_all is called at most once,
\* before any batch, and only with --reset
C33_BatchesArePrefix ==
    /\ re.pc # "start"
          => LET c == ReConcat(re.batches)
             IN  /\ Len(c) <= Len(ReExisting(re.items))
                 /\ c = SubSeq(ReExisting(re.items), 1, Len(c))
    /\ \A j \in 1..Len(re.batches) : Len(re.batches[j]) \in 1..re.batch
    /\ Cardinality(ReCallsOf("delete_all")) <= 1
    /\ ReCallsOf("delete_all") \subseteq {1}
    /\ ReCallsOf("delete_all") # {} => re.reset

\* C34: a run over at least one item whose file exists, in which the store
\* did not fail, ends with its completion message, one image_embed_batch
\* call per batch having returned and every such item upserted; a run with
\* --reset does not end with the index empty.
C34_BatchPathCompletes ==
    (ReEnded /\ re.error \notin {"delete_all", "upsert_batch"} /\ ReExisting(re.items) # <<>>)
        => /\ re.pc = "complete"
           /\ Range(ReExisting(re.items)) \subseteq re.index
           /\ Cardinality(ReCallsOf("upsert_batch")) = Len(re.batches)
           /\ ~(re.reset /\ re.index = {})
\* what the command does instead: the first batch raises in
\* image_embed_batch, nothing is ever upserted, and a --reset run over a
\* table with an existing file always ends with an empty index
C34_FirstBatchRaises ==
    /\ ReCallsOf("upsert_batch") = {}
    /\ Len(re.batches) <= 1
    /\ (ReEnded /\ re.error # "delete_all" /\ ReExisting(re.items) # <<>>)
          => (re.pc = "raised" /\ re.error = "image_embed_batch"
              /\ (re.reset => re.index = {}))

(***************************************************************************)
(* normalize_text_query (SpecNormalize).  A query is a sequence of the     *)
(* characters "a", "B" and " ", or None.  The spell checker of a call is   *)
(* given by whether its import and its construction succeed and by what    *)
(* correction() does: return the word, return another word, return None,   *)
(* or raise.  An exception is a value [ok |-> FALSE].                      *)
(***************************************************************************)
\* a query has 0..MaxQueryLen characters
MaxQueryLen == 4

QueryChars == {"a", "B", " "}
QueryTexts == UNION {[1..n -> QueryChars] : n \in 0..MaxQueryLen}
NoneQuery == [kind |-> "none", text |-> <<>>]
RawQueries == {NoneQuery} \cup {[kind |-> "str", text |-> t] : t \in QueryTexts}
SpellCheckers ==
    [import : BOOLEAN, construct : BOOLEAN, run : {"same", "other", "none", "raises"}]

\* str.lower()
LowerChar(c) == IF c = "B" THEN "b" ELSE c
Lower(s) == [j \in 1..Len(s) |-> LowerChar(s[j])]
\* str.strip()
RECURSIVE StripLeft(_)
StripLeft(s) == IF s # <<>> /\ Head(s) = " " THEN StripLeft(Tail(s)) ELSE s
RECURSIVE StripRight(_)
StripRight(s) ==
    IF s # <<>> /\ s[Len(s)] = " " THEN StripRight(SubSeq(s, 1, Len(s) - 1)) ELSE s
Strip(s) == StripRight(StripLeft(s))
\* str.split(): the maximal runs of characters that are not whitespace
RECURSIVE SplitWords(_, _)
SplitWords(s, word) ==
    IF s = <<>> THEN (IF word = <<>> THEN <<>> ELSE <<word>>)
    ELSE IF Head(s) = " "
    THEN (IF word = <<>> THEN <<>> ELSE <<word>>) \o SplitWords(Tail(s), <<>>)
    ELSE SplitWords(Tail(s), Append(word, Head(s)))
\* ' '.join(words)
RECURSIVE JoinWords(_)
JoinWords(words) ==
    IF words = <<>> THEN <<>>
    ELSE IF Len(words) = 1 THEN words[1]
    ELSE words[1] \o <<" ">> \o JoinWords(Tail(words))

\* _spell.correction(w): the word, another word of the dictionary, or None
\* (the empty value)
Correction(run, w) ==
    CASE run = "same" -> [ok |-> TRUE, val |-> w]
      [] run = "other" -> [ok |-> TRUE, val |-> [j \in 1..Len(w) |-> "a"]]
      [] run = "none" -> [ok |-> TRUE, val |-> <<>>]
      [] run = "raises" -> [ok |-> FALSE, val |-> <<>>]
\* a loop that takes the correction as it comes
CorrectedWordAsGiven(c, w) == c
\* cw = _spell.correction(w) or w
CorrectedWord(c, w) == IF c = <<>> THEN w ELSE c

\* the try block: the import, the construction of _spell on first use, the
\* loop over the words
SpellPass(q, sc, cached) ==
    LET words == SplitWords(q, <<>>)
        corrected == [j \in 1..Len(words) |->
                         CorrectedWord(Correction(sc.run, words[j]).val, words[j])]
    IN  IF ~sc.import THEN [ok |-> FALSE, val |-> <<>>, cached |-> cached]
        ELSE IF ~cached /\ ~sc.construct THEN [ok |-> FALSE, val |-> <<>>, cached |-> FALSE]
        ELSE IF sc.run = "raises" /\ words # <<>>
        THEN [ok |-> FALSE, val |-> <<>>, cached |-> TRUE]
        ELSE [ok |-> TRUE, val |-> JoinWords(corrected), cached |-> TRUE]

\* normalize_text_query(q)
NormalizeTextQuery(raw, sc, cached) ==
    LET q == Lower(Strip(IF raw.kind = "none" THEN <<>> ELSE raw.text))
        pass == SpellPass(q, sc, cached)
    IN  IF q = <<>> THEN [ok |-> TRUE, val |-> q, cached |-> cached]
        ELSE IF pass.ok THEN pass
        ELSE [ok |-> TRUE, val |-> q, cached |-> pass.cached]

InitNormalize ==
    /\ mode = "legacy"
    /\ S3Start /\ OSStart /\ PollStart
    /\ ex = <<>> /\ lazy = <<>> /\ rr = <<>> /\ owner = <<>> /\ scan = <<>> /\ pb = <<>>
    /\ dl = <<>> /\ re = <<>> /\ sv = <<>> /\ cs = <<>>
    /\ \E raw \in RawQueries, sc \in SpellCheckers, cached \in BOOLEAN :
          nq = [pc |-> "input", raw |-> raw, sc |-> sc, cached |-> cached,
                failed |-> FALSE, out |-> [ok |-> TRUE, val |-> <<>>, cached |-> cached]]

NormalizeStep ==
    /\ nq.pc = "input"
    /\ nq' = [nq EXCEPT !.pc = "done",
                        !.out = NormalizeTextQuery(nq.raw, nq.sc, nq.cached),
                        !.failed = ~SpellPass(Lower(Strip(nq.raw.text)), nq.sc, nq.cached).ok]
    /\ UNCHANGED <<s3vars, osvars, pollvars, ex, lazy, rr, owner, scan, pb, dl, re, sv, cs>>

NextNormalize == NormalizeStep

SpecNormalize == InitNormalize /\ [][NextNormalize]_vars

\* C35: normalize_text_query never raises.  When the spell checker works
\* its result is the words of the query, lower-cased, each replaced by its
\* correction (kept where the checker has none), separated by single spaces;
\* when the import, the construction or a correction fails it is the query
\* without its leading and trailing whitespace, lower-cased, and no more.
C35_WordStarts(s) == {j \in 1..Len(s) : s[j] # " " /\ (j = 1 \/ s[j - 1] = " ")}
C35_WordEnds(s) == {j \in 1..Len(s) : s[j] # " " /\ (j = Len(s) \/ s[j + 1] = " ")}
C35_Nth(S, k) == CHOOSE x \in S : Cardinality({y \in S : y < x}) = k - 1
C35_Word(s, k) == SubSeq(s, C35_Nth(C35_WordStarts(s), k), C35_Nth(C35_WordEnds(s), k))
C35_NumWords(s) == Cardinality(C35_WordStarts(s))
C35_Trimmed(s, t) ==
    \E i \in 1..(Len(s) + 1), j \in 0..Len(s) :
        /\ t = SubSeq(s, i, j)
        /\ \A h \in 1..Len(s) : (h < i \/ h > j) => s[h] = " "
        /\ t # <<>> => (t[1] # " " /\ t[Len(t)] # " ")
C35_Lowered(s, t) ==
    /\ Len(t) = Len(s)
    /\ \A j \in 1..Len(s) : t[j] = (IF s[j] = "B" THEN "b" ELSE s[j])
C35_Expected(run, w) ==
    CASE run = "same" -> w
      [] run = "other" -> [j \in 1..Len(w) |-> "a"]
      [] run = "none" -> w
C35_NeverRaises ==
    nq.pc = "done"
        => LET text == nq.raw.text
               val == nq.out.val
           IN  /\ nq.out.ok
               /\ (nq.failed \/ C35_NumWords(text) = 0)
                     => \E t \in QueryTexts : C35_Trimmed(text, t) /\ C35_Lowered(t, val)
               /\ (~nq.failed /\ C35_NumWords(text) > 0)
                     => /\ C35_NumWords(val) = C35_NumWords(text)
                        /\ Len(val) = C35_Nth(C35_WordEnds(val), C35_NumWords(val))
                        /\ val[1] # " "
                        /\ \A j \in 1..(Len(val) - 1) : ~(val[j] = " " /\ val[j + 1] = " ")
                        /\ \A k \in 1..C35_NumWords(text) :
                              \E lw \in QueryTexts \cup {Lower(C35_Word(text, k))} :
                                  /\ C35_Lowered(C35_Word(text, k), lw)
                                  /\ C35_Word(val, k) = C35_Expected(nq.sc.run, lw)
\* a padded two-word query in upper case for which a correction raises
C35_Witness ==
    /\ nq.pc = "done" /\ nq.failed /\ nq.sc.run = "raises" /\ nq.sc.import
    /\ nq.raw.text = <<" ", "B", " ", "a">>
    /\ nq.out.ok /\ nq.out.val = <<"b", " ", "a">>
\* the same query with a checker that has no correction for any word
C35_WitnessKept ==
    /\ nq.pc = "done" /\ ~nq.failed /\ nq.sc.run = "none"
    /\ nq.raw.text = <<" ", "B", " ", "a">>
    /\ nq.out.val = <<"b", " ", "a">>

(***************************************************************************)
(* UpsertViaS3View.post and ImageSearchView.get, request by request        *)
(* (SpecView).  sv.clock counts the requests; a presigned URL is the key   *)
(* it was made for together with the request that made it.  sv.store       *)
(* holds, per id, the metadata the store was given; the store starts       *)
(* empty, post being the only ingestion path that reaches it.  sv.calls    *)
(* logs the calls of the request in hand on the embedding client and the   *)
(* store.  Queries are written in the characters of SpecNormalize.         *)
(***************************************************************************)
\* the views serve up to MaxRequests requests
MaxRequests == 3

\* DOMAIN_SYNONYMS: "b" stands for a key with three terms, "a" for a key
\* with two; the first term of a key is the key
DomainSynonyms(key) ==
    CASE key = <<"b">> -> << <<"b">>, <<"a", " ", "b">>, <<"b", " ", "b">> >>
      [] key = <<"a">> -> << <<"a">>, <<"a", "a">> >>
SynonymKeys == {<<"a">>, <<"b">>}
\* an expansion that embeds the query alone
ExpandTermsQueryOnly(qnorm) == <<qnorm>>
\* terms = DOMAIN_SYNONYMS.get(q_norm, [q_norm])
ExpandTerms(qnorm) == IF qnorm \in SynonymKeys THEN DomainSynonyms(qnorm) ELSE <<qnorm>>

ViewQueries ==
    {<<>>, <<" ">>, <<"B">>, <<" ", "b">>, <<"a">>, <<"b", "a">>, <<"b", " ", "b">>}
ViewCheckers ==
    {[import |-> TRUE, construct |-> TRUE, run |-> "same"],
     [import |-> TRUE, construct |-> TRUE, run |-> "other"],
     [import |-> FALSE, construct |-> TRUE, run |-> "same"]}
S3Keys == {"k1", "k2"}

\* presign_get(key), called while serving request number `now`
Presign(key, now) == [key |-> key, at |-> now]
NoUrl == [key |-> "", at |-> 0 - 1]
ViewDate == [kind |-> "str", text |-> Date14, iso |-> Date14, ymd |-> 20240614]
\* the payload of post: id, building, shot_date, shot_ymd, s3_key, notes
PostPayload(id, building, sd, key, notes) ==
    [id |-> id, building |-> building, shot_date |-> sd.text,
     shot_ymd |-> PostShotYmd(sd).val, s3_key |-> key, notes |-> notes]

\* a row that goes out with a URL made for the first request
AttachUrlMintedOnce(r, now, pok) ==
    [r EXCEPT !.image_url = IF r.s3_key # "" /\ pok THEN Presign(r.s3_key, 0) ELSE r.image_url]
\* s3k = r.get('s3_key'); if s3k: r['image_url'] = presign_get(s3k), an
\* exception of which is swallowed
AttachUrl(r, now, pok) ==
    [r EXCEPT !.image_url = IF r.s3_key # "" /\ pok THEN Presign(r.s3_key, now) ELSE r.image_url]

\* the row search makes of a stored record: id, score and the metadata
SearchRow(p) ==
    [id |-> p.id, score |-> RatOne, building |-> p.building, shot_date |-> p.shot_date,
     shot_ymd |-> p.shot_ymd, s3_key |-> p.s3_key, notes |-> p.notes, image_url |-> NoUrl]
\* what search may return: rows of stored records, one per id, in any order
SearchResults(store) ==
    LET present == {i \in Ids : store[i] # {}}
        row(i) == SearchRow(CHOOSE p \in store[i] : TRUE)
    IN  {<<>>} \cup {<<row(i)>> : i \in present}
        \cup {<<row(pr[1]), row(pr[2])>> : pr \in {x \in present \X present : x[1] # x[2]}}

ViewIdle(clock, store) ==
    [pc |-> "idle", op |-> "none", clock |-> clock, store |-> store, q |-> <<>>,
     qnorm |-> <<>>, terms |-> <<>>, i |-> 0, building |-> NoBuilding, calls |-> <<>>,
     status |-> 0, url |-> NoUrl, results |-> <<>>]

InitView ==
    /\ mode = "legacy"
    /\ S3Start /\ OSStart /\ PollStart
    /\ ex = <<>> /\ lazy = <<>> /\ rr = <<>> /\ owner = <<>> /\ scan = <<>> /\ pb = <<>>
    /\ dl = <<>> /\ re = <<>> /\ nq = <<>> /\ cs = <<>>
    /\ sv = ViewIdle(0, [i \in Ids |-> {}])

viewOthers ==
    <<s3vars, osvars, pollvars, ex, lazy, rr, owner, scan, pb, dl, re, nq, cs>>

\* UpsertViaS3View.post; pok, eok, uok: presign_get, _invoke and upsert succeed
ViewPost(id, key, building, pok, eok, uok) ==
    /\ sv.pc = "idle" /\ sv.clock < MaxRequests
    /\ LET began == [sv EXCEPT !.op = "post", !.pc = "responded"]
           url == Presign(key, sv.clock)
           payload == PostPayload(id, building, ViewDate, key, "")
       IN  sv' = IF id = "" \/ key = "" \/ building = NoBuilding
                 THEN [began EXCEPT !.status = 400]
                 ELSE IF ~pok THEN [began EXCEPT !.status = 500]
                 ELSE IF ~eok THEN [began EXCEPT !.status = 500, !.calls = <<"_invoke">>]
                 ELSE IF ~uok
                 THEN [began EXCEPT !.status = 500, !.calls = <<"_invoke", "upsert">>]
                 ELSE [began EXCEPT !.status = 201, !.calls = <<"_invoke", "upsert">>,
                                    !.store = [sv.store EXCEPT ![id] = {payload}],
                                    !.url = url]
    /\ UNCHANGED viewOthers

\* ImageSearchView.get up to the list of terms
ViewGetBegin(q, sc, building) ==
    /\ sv.pc = "idle" /\ sv.clock < MaxRequests
    /\ LET qnorm == NormalizeTextQuery([kind |-> "str", text |-> q], sc, FALSE).val
       IN  sv' = IF q = <<>>
                 THEN [sv EXCEPT !.op = "get", !.pc = "responded", !.status = 400]
                 ELSE [sv EXCEPT !.op = "get", !.pc = "embed", !.q = q, !.qnorm = qnorm,
                                 !.terms = ExpandTerms(qnorm), !.i = 1,
                                 !.building = building]
    /\ UNCHANGED viewOthers

\* one text_embed call of embs = [get_siglip().text_embed(t) for t in terms]
ViewTextEmbed(ok) ==
    /\ sv.pc = "embed"
    /\ LET logged == Append(sv.calls, [name |-> "text_embed", term |-> sv.terms[sv.i], ok |-> ok])
       IN  sv' = IF ~ok THEN [sv EXCEPT !.pc = "responded", !.status = 500, !.calls = logged]
                 ELSE IF sv.i < Len(sv.terms) THEN [sv EXCEPT !.i = sv.i + 1, !.calls = logged]
                 ELSE [sv EXCEPT !.pc = "search", !.calls = logged]
    /\ UNCHANGED viewOthers

\* search, the re-rank and the URLs of the rows
ViewSearch(ok, pok) ==
    /\ sv.pc = "search"
    /\ LET logged == Append(sv.calls, [name |-> "search", term |-> <<>>, ok |-> ok])
       IN  IF ~ok
           THEN sv' = [sv EXCEPT !.pc = "responded", !.status = 500, !.calls = logged]
           ELSE \E found \in SearchResults(sv.store) :
                   LET ranked == Rerank(found, sv.building)
                   IN  sv' = [sv EXCEPT !.pc = "responded", !.status = 200, !.calls = logged,
                                        !.results = [j \in 1..Len(ranked) |->
                                                        AttachUrl(ranked[j], sv.clock, pok)]]
    /\ UNCHANGED viewOthers

\* the response is sent
ViewReturn ==
    /\ sv.pc = "responded"
    /\ sv' = ViewIdle(sv.clock + 1, sv.store)
    /\ UNCHANGED viewOthers

NextView ==
    \/ \E id \in Ids, key \in S3Keys \cup {""}, building \in Buildings,
          pok \in BOOLEAN, eok \in BOOLEAN, uok \in BOOLEAN :
          ViewPost(id, key, building, pok, eok, uok)
    \/ \E q \in ViewQueries, sc \in ViewCheckers, building \in BuildingFilters :
          ViewGetBegin(q, sc, building)
    \/ \E ok \in BOOLEAN : ViewTextEmbed(ok)
    \/ \E ok \in BOOLEAN, pok \in BOOLEAN : ViewSearch(ok, pok)
    \/ ViewReturn

SpecView == InitView /\ [][NextView]_vars

\* C37: in a get with a text query text_embed is called once per expanded
\* term (the synonyms when the normalised query is a key of DOMAIN_SYNONYMS,
\* else the normalised query alone), in list order; search is called once and
\* only after every embedding has returned; when a text_embed fails search
\* is not called.
C37_Expected ==
    CASE sv.qnorm = <<"b">> -> << <<"b">>, <<"a", " ", "b">>, <<"b", " ", "b">> >>
      [] sv.qnorm = <<"a">> -> << <<"a">>, <<"a", "a">> >>
      [] OTHER -> <<sv.qnorm>>
C37_Embeds == {j \in 1..Len(sv.calls) : sv.calls[j].name = "text_embed"}
C37_Searches == {j \in 1..Len(sv.calls) : sv.calls[j].name = "search"}
C37_PipelineOrder ==
    (sv.op = "get" /\ sv.q # <<>>)
        => /\ C37_Embeds = 1..Cardinality(C37_Embeds)
           /\ Cardinality(C37_Embeds) <= Len(C37_Expected)
           /\ \A j \in C37_Embeds : sv.calls[j].term = C37_Expected[j]
           /\ Cardinality(C37_Searches) <= 1
           /\ \A s \in C37_Searches :
                 /\ s = Len(C37_Expected) + 1
                 /\ \A j \in C37_Embeds : sv.calls[j].ok
           /\ (\E j \in C37_Embeds : ~sv.calls[j].ok) => C37_Searches = {}
           /\ (sv.pc = "responded" /\ sv.status = 200)
                 => (Cardinality(C37_Embeds) = Len(C37_Expected) /\ C37_Searches # {})
\* the query " b": three embeddings, then the search
C37_Witness ==
    /\ sv.op = "get" /\ sv.pc = "responded" /\ sv.status = 200
    /\ sv.q = <<" ", "b">> /\ sv.qnorm = <<"b">>
    /\ Len(sv.calls) = 4 /\ sv.calls[4].name = "search"
    /\ sv.calls[2].term = <<"a", " ", "b">>

NeverReady == async.polls <= backend.readyAfter
C11_TimeoutNoLaterThanDeadline ==
    (async.pc = "raised" /\ backend.bucket /\ NeverReady)
        => (async.now >= async.deadline /\ async.now <= async.deadline)

\* C12: every vector the embedding client returns (image path and text path)
\* has exactly dim elements.
C12_ReturnedVectorHasDim ==
    /\ async.pc = "returned" => Len(async.result) = Dim
    /\ async.pc = "text_returned" => Len(async.raw.items) = Dim

\* C13: when the response carries no valid numeric embedding list the text
\* path raises and returns nothing; what it returns is always the numeric
\* vector of the payload, never a non-numeric list.
C13_MalformedNeverYieldsVector ==
    /\ (async.pc \in {"text_returned", "text_raised"} /\ ~backend.sent.ok)
          => async.pc = "text_raised"
    /\ async.pc = "text_returned"
          => (JIsNumList(async.raw) /\ JFloats(async.raw) = backend.sent.vec)

\* C16: once the caller has cancelled, the poll loop stops within one poll
\* interval (one read and one sleep) instead of running to the deadline.
C16_PollLoopCancellable ==
    (async.cancelAt >= 0 /\ async.pc = "loop" /\ async.now < async.deadline)
        => async.now <= async.cancelAt + MaxReadTime + SleepInterval

\* C20: the error raised when the deadline elapses carries the last failure
\* observed while polling; the generic timed-out message is used only when
\* none was observed.
C20_TimeoutCarriesLastError ==
    (async.pc = "raised" /\ backend.bucket)
        => async.error = (IF async.observed = "none" THEN "timed out" ELSE async.observed)
\* the object appeared after one absent read, every later read failed
C20_Witness ==
    /\ async.pc = "raised" /\ backend.bucket
    /\ backend.readyAfter = 1
    /\ async.polls >= 3
    /\ async.error = "bad shape"

\* C21: in the async image path the first poll that reads an output object
\* from which no embedding can be extracted (it is not JSON, or no envelope
\* shape matches) ends the call with an error; the loop does not sleep and
\* poll the same location again.
C21_MalformedNotRetried ==
    async.seen \in {"bad shape", "json error"} => async.pc \notin {"sleep", "loop"}

\* C22: a poll that finds the output object missing (NoSuchKey, or an empty
\* listing under the derived prefix) goes on to the sleep, raises nothing and
\* leaves the recorded last error as it was.
C22_NotReadyIsRetried ==
    [][(async'.polls = async.polls + 1 /\ async'.seen = "absent")
          => /\ async'.pc = "sleep"
             /\ async'.error = "none"
             /\ async'.lastErr = async.lastErr
             /\ async'.observed = async.observed]_vars
\* a read error was recorded, then the object was found missing: the sleep is
\* next and the read error is still the last error
C22_Witness ==
    /\ async.pc = "sleep" /\ async.seen = "absent"
    /\ async.polls = 2 /\ async.lastErr = "read error"
    /\ ~backend.outLoc

\* C23: between two consecutive reads of the output location exactly one
\* sleep of SleepInterval seconds happens, whatever the earlier read met: after
\* n reads the loop has slept n times when it is about to read again, and
\* n - 1 times when the n-th read has just ended.
C23_OneSleepBetweenReads ==
    /\ async.pc = "loop" => async.slept = SleepInterval * async.polls
    /\ async.pc \in {"sleep", "returned"} => async.slept = SleepInterval * (async.polls - 1)
\* three reads, each with another outcome (missing, read error, bad shape),
\* and two sleeps in between
C23_Witness ==
    /\ async.pc = "sleep" /\ async.polls = 3 /\ async.slept = 2 * SleepInterval
    /\ async.seen = "bad shape" /\ backend.readyAfter >= 1

\* C24: for an image payload the request is staged with put_object first,
\* then invoke_endpoint_async is called, and only then is the output location
\* read; without a staging bucket the call raises before any of these calls.
C24_IsRead(c) == c \in {"get_object", "list_objects_v2"}
C24_StageInvokePoll ==
    /\ (~backend.bucket /\ backend.imageEp /\ async.pc \notin {"idle", "text_returned", "text_raised"})
          => (async.pc = "raised" /\ async.calls = <<>>)
    /\ \A j \in 1..Len(async.calls) :
          /\ async.calls[j] = "put_object" => j = 1
          /\ async.calls[j] = "invoke_endpoint_async"
                => (j = 2 /\ async.calls[1] = "put_object")
          /\ C24_IsRead(async.calls[j])
                => (j > 2 /\ async.calls[1] = "put_object"
                          /\ async.calls[2] = "invoke_endpoint_async")
C24_Witness ==
    /\ async.pc = "returned" /\ async.polls = 2
    /\ async.calls = <<"put_object", "invoke_endpoint_async", "list_objects_v2",
                       "list_objects_v2", "get_object">>
\* C25: when upsert_batch raises because a record of the batch has no values
\* or a vector of length # dim, no record of that batch has been written: the
\* S3 Vectors index and the legacy JSON objects are as they were before the
\* call.
C25_BatchAllOrNothing ==
    [][(/\ last'.op = "upsert_batch"
        /\ last'.outcome = "raised"
        /\ \E j \in 1..Len(last'.items) : C9_Invalid(last'.items[j]))
           => (vidx' = vidx /\ legacy' = legacy)]_vars

\* C28: in the OpenSearch variant the k-NN index with its schema exists when
\* an upsert, upsert_batch or search has been served, after any sequence of
\* operations, delete_all included.
C28_IndexEnsuredBeforeUse ==
    osLast.op \in {"upsert", "upsert_batch", "search"} => osIndex = "knn"

\* C26: for the same stored records, query vector, top_k and filters the S3
\* Vectors index path and the legacy JSON scan path of search return the same
\* ids.  Stated where both locations hold the same records and no two of them
\* score alike (so that the order among equals plays no part): every way the
\* search just made can end normally gives the ids it gave.
C26_NoTies(store, q) ==
    \A i \in StoredIn(store), j \in StoredIn(store) :
        i # j => Cosine(q, RecOf(store, i).vec) # Cosine(q, RecOf(store, j).vec)
C26_PathsAgree ==
    (/\ last.op = "search" /\ last.outcome = "ok"
     /\ vidx = legacy
     /\ C26_NoTies(vidx, last.q))
        => \A o \in SearchOutcomes(vidx, legacy, last.q, last.k, last.b, last.df, last.dt) :
               o.outcome = "ok" => RowIds(o.result) = RowIds(last.result)

\* C29: in strict vector mode no operation falls back: every backend call
\* of upsert, upsert_batch, delete_ids, delete_all and search goes to the S3
\* Vectors client, no legacy JSON object is read, written, listed or deleted,
\* and a failed S3 Vectors call is the caller's error: a call that returns
\* normally has had its effect on the index.
C29_VectorCalls == {"put_vectors", "delete_vectors", "list_vectors", "query_vectors"}
C29_StrictNeverFallsBack ==
    mode = "strict"
        => /\ legacy = EmptyStore
           /\ last.path # "legacy"
           /\ \A j \in 1..Len(last.calls) : last.calls[j] \in C29_VectorCalls
           /\ (last.op = "upsert" /\ last.outcome = "ok")
                 => vidx[last.id] = {MakeRec(last.id, last.vec, last.meta)}
           /\ (last.op = "upsert_batch" /\ last.outcome = "ok")
                 => \A j \in 1..Len(last.items) :
                        vidx[last.items[j].id] =
                            {MakeRec(last.items[j].id, last.items[j].vals, last.items[j].meta)}
           /\ (last.op = "delete_ids" /\ last.outcome = "ok")
                 => \A j \in 1..Len(last.ids) : ~Present(vidx, last.ids[j])
           /\ (last.op = "delete_all" /\ last.outcome = "ok") => StoredIn(vidx) = {}
           /\ (last.op = "search" /\ last.outcome = "ok") => last.path = "vector"
\* a delete_all in strict mode whose delete_vectors call failed: the error
\* reached the caller and the index still holds its records
C29_Witness ==
    /\ mode = "strict"
    /\ last.op = "delete_all" /\ last.outcome = "raised"
    /\ last.calls = <<"list_vectors", "delete_vectors">>
    /\ Cardinality(StoredIn(vidx)) = 2

====
